---------------------------- MODULE Spec2Model ----------------------------
(***************************************************************************)
(* A model of torfs, a simulator of Tor client behaviour.                  *)
(*                                                                         *)
(* The module holds one state machine per subsystem, each with its own     *)
(* specification over the shared variable vector:                          *)
(*   SpecBw      bandwidth-weight recomputation   (src/src/adversaries.rs) *)
(*   SpecMarkov  the traffic-model Markov chain   (packet_model/markov.rs) *)
(*   SpecClient  one client's circuit manager, needs and guards            *)
(*               (client.rs, needs.rs, guard.rs)                           *)
(*   SpecSim     the parallel dispatch of clients, the per-thread random   *)
(*               generators, the global counters and the trace worker      *)
(*               (sim.rs, seeded_rand.rs, trace.rs, observer.rs)           *)
(* A specification leaves the variables of the other subsystems at their   *)
(* idle values.                                                            *)
(***************************************************************************)
EXTENDS Integers, Sequences, FiniteSets, TLC

VARIABLES
    \* ---- bandwidth weights
    bwpc,       \* "input" before recompute_bw_weights ran, then "done" or "panic"
    totals,     \* the totals [G, M, E, D] collected from the consensus
    weights,    \* the weights recompute_bw_weights computed (and the case taken)
    adv,        \* the Adversary, and the consensus and descriptors it modifies
    \* ---- Markov chain of the traffic model
    mmodel,     \* the parsed model: each state's transitions and actions
    not_after,  \* the time the chain must not pass
    chain,      \* MarkovChain: current_state, current_time, stopped
    mpc,        \* the caller of get_next: "call", "ret", "done" or "panic"
    mout,       \* what the last get_next returned: <<time, emission>>
    puser,      \* PrivcountUser: flow clock, current flow, the last requests
    \* ---- one client: circuit manager, port needs, guards
    consensus,  \* the relays of the current consensus: fingerprint -> status
    now,        \* last_triggered: <<>> or <<the time of the last maintenance>>
    circuits,   \* CircuitManager.circuits, in the order of the Vec
    port_needs, \* NeedsContainer.needs: port -> <<>> or <<the need>>
    guards,     \* GuardHandling: sampled_guards, confirmed_guards, primary_guards
    cpc,        \* "idle", "run", or "error" once a circuit could not be built
    maint,      \* what the last maintenance did to the circuits it found
    used,       \* <<>> or <<the last request and the circuit that served it>>
    handed,     \* the guards get_guard_for_circuit has handed to its callers
    rng,        \* the stream of draws of the generator of the client's thread
    removed_guards, \* the guards timed_updates removed and nobody sampled since
    \* ---- one run of the simulation: workers, generators, counters, trace
    spc,          \* "idle", "run", "stopping", "done", or "trace"
    nworkers,     \* the number of threads of the worker pool
    epoch,        \* the index of the epoch the simulation is in
    num_threads,  \* GLOBAL_STATE.num_threads
    thread_rng,   \* THREAD_SEEDED_RNG: worker -> <<>> or <<[num, pos]>>
    sclients,     \* the clients: user model, task of the epoch, requests
    running,      \* worker -> <<>> or <<the client whose epoch it handles>>
    writers,      \* worker -> the rows in the buffer of its MemoryCsvWriter
    NEXT_SENDER,  \* the global counter of the source ids
    NEXT_MESSAGE, \* the global counter of the message ids
    channel,      \* the chunks sent to the trace worker and not yet received
    file,         \* the rows of the output trace
    notified,     \* <<>> or <<the last circuit_used notification>>
    prev_run,     \* <<>> or <<the outcome of the previous run of the program>>
    \* ---- one GlobalCounter and the threads that call it concurrently
    counter,      \* next_value, the holder of the mutex, the calls, the results
    \* ---- the loop of Simulator::run over the consensuses of the archive
    epochs        \* the handles, end_time, the ranges of the epochs entered

bwVars == <<bwpc, totals, weights, adv>>

mkVars == <<mmodel, not_after, chain, mpc, mout, puser>>

clVars == <<consensus, now, circuits, port_needs, guards, cpc, maint, used,
            handed, rng, removed_guards>>

simVars == <<spc, nworkers, epoch, num_threads, thread_rng, sclients, running,
             writers, NEXT_SENDER, NEXT_MESSAGE, channel, file, notified,
             prev_run, counter, epochs>>

vars == <<bwpc, totals, weights, adv, mmodel, not_after, chain, mpc, mout, puser,
          consensus, now, circuits, port_needs, guards, cpc, maint, used,
          handed, rng, removed_guards, spc, nworkers, epoch, num_threads,
          thread_rng, sclients, running, writers, NEXT_SENDER, NEXT_MESSAGE,
          channel, file, notified, prev_run, counter, epochs>>

(***************************************************************************)
(* Small helpers                                                           *)
(***************************************************************************)
Min(a, b) == IF a <= b THEN a ELSE b

Max(a, b) == IF a >= b THEN a ELSE b

\* Rust's integer division, which truncates toward zero (b > 0 at every use).
TruncDiv(a, b) == IF a >= 0 THEN a \div b ELSE -((-a) \div b)

(***************************************************************************)
(* Bandwidth-weight recomputation (bwweights::recompute_bw_weights)        *)
(***************************************************************************)
\* the largest total a consensus of the model adds up to
MaxBw == 8

weightscale == 10000

\* the margin recompute_bw_weights hands to check_weights_errors
BwMargin == 10

check_eq(a, b, margin) ==
    IF a - b >= 0 THEN a - b <= margin ELSE b - a <= margin

check_range(a, b, c, d, e, f, g, mx) ==
    /\ a >= 0 /\ a <= mx
    /\ b >= 0 /\ b <= mx
    /\ c >= 0 /\ c <= mx
    /\ d >= 0 /\ d <= mx
    /\ e >= 0 /\ e <= mx
    /\ f >= 0 /\ f <= mx
    /\ g >= 0 /\ g <= mx

\* The first violated formula of dir-spec, in the order the code tests them.
check_weights_errors(w, t, margin, do_balance) ==
    LET T == t.E + t.G + t.D + t.M
    IN  IF ~check_eq(w.Wed + w.Wmd + w.Wgd, weightscale, margin) THEN "SumD"
        ELSE IF ~check_eq(w.Wmg + w.Wgg, weightscale, margin) THEN "SumG"
        ELSE IF ~check_eq(w.Wme + w.Wee, weightscale, margin) THEN "SumE"
        ELSE IF ~check_range(w.Wgg, w.Wgd, w.Wmg, w.Wme, w.Wmd, w.Wed, w.Wee,
                             weightscale) THEN "Range"
        ELSE IF do_balance
                /\ ~check_eq(w.Wgg * t.G + w.Wgd * t.D,
                             w.Wee * t.E + w.Wed * t.D,
                             TruncDiv(margin * T, 3)) THEN "BalanceEg"
        ELSE IF do_balance
                /\ ~check_eq(w.Wgg * t.G + w.Wgd * t.D,
                             t.M * weightscale + w.Wmd * t.D + w.Wme * t.E
                                 + w.Wmg * t.G,
                             TruncDiv(margin * T, 3)) THEN "BalanceMid"
        ELSE "None"

\* a set of weights; cs names the case that produced it
Wts(cs, Wgg, Wgd, Wmg, Wme, Wmd, Wee, Wed) ==
    [cs |-> cs, Wgg |-> Wgg, Wgd |-> Wgd, Wmg |-> Wmg, Wme |-> Wme,
     Wmd |-> Wmd, Wee |-> Wee, Wed |-> Wed]

Case1(t) ==
    LET W   == weightscale
        Wee == TruncDiv(W * (t.E + t.G + t.M), 3 * t.E)
        Wmg == TruncDiv(W * (2 * t.G - t.E - t.M), 3 * t.G)
    IN  Wts("1", W - Wmg, TruncDiv(W, 3), Wmg, W - Wee, TruncDiv(W, 3), Wee,
            TruncDiv(W, 3))

Case2a(t) ==
    LET W == weightscale
    IN  IF t.E < t.G THEN Wts("2a", W, 0, 0, 0, 0, W, W)
                     ELSE Wts("2a", W, W, 0, 0, 0, W, 0)

Case2b1(t) ==
    LET W   == weightscale
        Wee == TruncDiv(W * (t.E - t.G + t.M), t.E)
        Wed == TruncDiv(W * (t.D - 2 * t.E + 4 * t.G - 2 * t.M), 3 * t.D)
        Wme == TruncDiv(W * (t.G - t.M), t.E)
    IN  Wts("2b1", W, TruncDiv(W - Wed, 2), 0, Wme, TruncDiv(W - Wed, 2), Wee,
            Wed)

\* case 2b2, and 2b3 where Wmd is clamped to 0
Case2b2(t) ==
    LET W    == weightscale
        Wed  == TruncDiv(W * (t.D - 2 * t.E + t.G + t.M), 3 * t.D)
        Wmd0 == TruncDiv(W * (t.D - 2 * t.M + t.G + t.E), 3 * t.D)
        Wmd  == IF Wmd0 < 0 THEN 0 ELSE Wmd0
    IN  Wts(IF Wmd0 < 0 THEN "2b3" ELSE "2b2", W, W - Wed - Wmd, 0, 0, Wmd, W,
            Wed)

\* case 2b that keeps the weights of 2b1
Case2b_NoRetry(t) == Case2b1(t)

Case2b(t) ==
    IF check_weights_errors(Case2b1(t), t, BwMargin, TRUE) # "None"
    THEN Case2b2(t)
    ELSE Case2b1(t)

Case3a(t) ==
    LET W == weightscale
    IN  IF t.G < t.E
        THEN LET Wme == IF t.E < t.M THEN 0
                        ELSE TruncDiv(W * (t.E - t.M), 2 * t.E)
             IN  Wts("3a", W, W, 0, Wme, 0, W - Wme, 0)
        ELSE LET Wmg == IF t.G < t.M THEN 0
                        ELSE TruncDiv(W * (t.G - t.M), 2 * t.G)
             IN  Wts("3a", W - Wmg, 0, Wmg, 0, 0, W, W)

Case3b(t) ==
    LET W == weightscale
    IN  IF t.G < t.E
        THEN LET Wgd == TruncDiv(W * (t.D - 2 * t.G + t.E + t.M), 3 * t.D)
                 Wee == TruncDiv(W * (t.E + t.M), 2 * t.E)
             IN  Wts("3b", W, Wgd, 0, W - Wee, TruncDiv(W - Wgd, 2), Wee,
                     TruncDiv(W - Wgd, 2))
        ELSE LET Wed == TruncDiv(W * (t.D - 2 * t.E + t.G + t.M), 3 * t.D)
                 Wgg == TruncDiv(W * (t.G + t.M), 2 * t.G)
             IN  Wts("3b", Wgg, TruncDiv(W - Wed, 2), W - Wgg, 0,
                     TruncDiv(W - Wed, 2), W, Wed)

\* the errors the final check of case 2b lets pass
ToleratedNoCheck(err) == TRUE

Tolerated(err) == err \in {"None", "BalanceMid"}

\* The weights for the totals t, and whether the computation panics.
recompute_bw_weights(t) ==
    LET T == t.E + t.G + t.D + t.M
    IN  IF 3 * t.E >= T /\ 3 * t.G >= T
        THEN [w |-> Case1(t), panic |-> FALSE]
        ELSE IF 3 * t.E < T /\ 3 * t.G < T
        THEN IF Min(t.E, t.G) + t.D < Max(t.E, t.G)
             THEN [w |-> Case2a(t), panic |-> FALSE]
             ELSE [w |-> Case2b(t),
                   panic |-> ~Tolerated(check_weights_errors(Case2b(t), t,
                                                             BwMargin, TRUE))]
        ELSE IF 3 * (Min(t.E, t.G) + t.D) < T
             THEN [w |-> Case3a(t), panic |-> FALSE]
             ELSE [w |-> Case3b(t), panic |-> FALSE]

NoWeights == Wts("none", 0, 0, 0, 0, 0, 0, 0)

\* no adversary, and a consensus without relays and without weights
NoAdversary ==
    [extra_relays |-> <<>>, relays |-> <<>>, descriptors |-> <<>>,
     weights |-> <<>>]

BwStart ==
    /\ bwpc = "input"
    /\ totals \in [G : 1..MaxBw, M : 1..MaxBw, E : 1..MaxBw, D : 1..MaxBw]
    /\ weights = NoWeights
    /\ adv = NoAdversary

BwIdle ==
    /\ bwpc = "idle"
    /\ totals = [G |-> 1, M |-> 1, E |-> 1, D |-> 1]
    /\ weights = NoWeights
    /\ adv = NoAdversary

\* recompute_bw_weights runs to its end and stores the weights
BwRecompute ==
    /\ bwpc = "input"
    /\ ~recompute_bw_weights(totals).panic
    /\ bwpc' = "done"
    /\ weights' = recompute_bw_weights(totals).w
    /\ UNCHANGED <<totals, adv, mkVars, clVars, simVars>>

\* recompute_bw_weights panics ("bw weight error"); nothing is stored
BwPanic ==
    /\ bwpc = "input"
    /\ recompute_bw_weights(totals).panic
    /\ bwpc' = "panic"
    /\ UNCHANGED <<totals, weights, adv, mkVars, clVars, simVars>>


(***************************************************************************)
(* The Markov chain of the traffic models (packet_model/markov.rs)         *)
(***************************************************************************)
\* the largest delay (in microseconds) an emission of the model samples
MaxDelay == 2

\* the latest not_after of the model; chains start at time 0
MaxNotAfter == 4

\* the states besides "start" the stream models considered have
MStates == {"a", "b"}

\* Emission: "+" and "-" are packets, "$" a new stream, "F" StopGenerating.
\* MarkovDelay: "sampled" is Exponential or LogNormal, "none" is None.
MAction(emission, delay) == [emission |-> emission, delay |-> delay]

\* the lists of actions a state of the models has
MActionSets ==
    { {MAction("$", "sampled")},
      {MAction("F", "none")},
      {MAction("$", "sampled"), MAction("F", "none")},
      {MAction("$", "none")},
      {MAction("-", "sampled")},
      {MAction("+", "sampled"), MAction("F", "sampled")} }

\* MarkovChain::new: the models, every state with at least one transition
\* and every state but "start" with at least one action
MModels ==
    [transitions : [MStates \cup {"start"} -> (SUBSET MStates) \ {{}}],
     actions     : [MStates -> MActionSets]]

\* MarkovAction::sample_delay: the delays an action can sample, rounded
SampleDelays(action) ==
    IF action.delay = "none" THEN {0} ELSE 0..MaxDelay

\* MarkovChain::get_next, having drawn transition next_state, the action of
\* next_state and its delay: the chain afterwards and the pair returned.
get_next(c, na, next_state, action, delay) ==
    IF c.stopped
    THEN [chain |-> c, ret |-> <<c.current_time, "F">>]
    ELSE [chain |-> [current_state |-> next_state,
                     current_time  |-> IF delay >= na - c.current_time
                                       THEN na ELSE c.current_time,
                     stopped       |-> \/ action.emission = "F"
                                       \/ delay >= na - c.current_time],
          ret   |-> <<c.current_time, action.emission>>]

\* PrivcountUser::new at start_time: no flow yet.  prev and last are the
\* last two requests next returned, clamped says that get_next has set the
\* time of a chain of the user to not_after
PrivcountUser(start_time) ==
    [flow_model |-> [current_time |-> start_time], current_flow |-> <<>>,
     flow_not_after |-> 0, prev |-> <<>>, last |-> <<>>, clamped |-> FALSE]

MkStart ==
    /\ mmodel \in MModels
    /\ not_after \in 1..MaxNotAfter
    /\ chain = [current_state |-> "start", current_time |-> 0,
                stopped |-> FALSE]
    /\ mpc = "call"
    /\ mout = <<0, "none">>
    /\ puser = PrivcountUser(0)

MkIdle ==
    /\ mmodel = [transitions |-> [s \in MStates \cup {"start"} |-> {"a"}],
                 actions     |-> [s \in MStates |-> {MAction("F", "none")}]]
    /\ not_after = 0
    /\ chain = [current_state |-> "start", current_time |-> 0,
                stopped |-> FALSE]
    /\ mpc = "idle"
    /\ mout = <<0, "none">>
    /\ puser = PrivcountUser(0)

\* One call of get_next by FlowOfStreams::next, which draws next_state among
\* the transitions of the current state, then an action of next_state and
\* its delay.
GetNextWith(next_state, action, delay) ==
    /\ mpc = "call"
    /\ next_state \in mmodel.transitions[chain.current_state]
    /\ action \in mmodel.actions[next_state]
    /\ delay \in SampleDelays(action)
    /\ chain' = get_next(chain, not_after, next_state, action, delay).chain
    /\ mout' = get_next(chain, not_after, next_state, action, delay).ret
    /\ mpc' = "ret"
    /\ UNCHANGED <<mmodel, not_after, puser, bwVars, clVars, simVars>>

GetNext ==
    \E next_state \in MStates :
        \E action \in UNION MActionSets :
            \E delay \in 0..MaxDelay :
                GetNextWith(next_state, action, delay)

\* a call of get_next whose draws stop the chain
GetNextStop ==
    \E next_state \in MStates :
        \E action \in UNION MActionSets :
            \E delay \in 0..MaxDelay :
                /\ ~chain.stopped
                /\ \/ action.emission = "F"
                   \/ delay >= not_after - chain.current_time
                /\ GetNextWith(next_state, action, delay)

\* a call of get_next that samples a delay of at least one microsecond
GetNextDelayed ==
    \E next_state \in MStates :
        \E action \in UNION MActionSets :
            \E delay \in 1..MaxDelay :
                /\ ~chain.stopped
                /\ GetNextWith(next_state, action, delay)

\* FlowOfStreams::next hands the time of a new stream to its caller, which
\* asks for the next one
FlowNextStream ==
    /\ mpc = "ret"
    /\ mout[2] = "$"
    /\ mpc' = "call"
    /\ UNCHANGED <<mmodel, not_after, chain, mout, puser, bwVars, clVars,
                   simVars>>

\* FlowOfStreams::next returns None: the flow has ended
FlowNextStop ==
    /\ mpc = "ret"
    /\ mout[2] = "F"
    /\ mpc' = "done"
    /\ UNCHANGED <<mmodel, not_after, chain, mout, puser, bwVars, clVars,
                   simVars>>

\* FlowOfStreams::next panics on a packet emission
FlowNextPanic ==
    /\ mpc = "ret"
    /\ mout[2] \in {"+", "-"}
    /\ mpc' = "panic"
    /\ UNCHANGED <<mmodel, not_after, chain, mout, puser, bwVars, clVars,
                   simVars>>

\* the states that transitions lead to from the states in S
MSucc(m, S) == UNION {m.transitions[s] : s \in S}

\* the states a chain of model m can be in after one or more steps
MReachable(m) ==
    LET r1 == MSucc(m, {"start"})
        r2 == r1 \cup MSucc(m, r1)
    IN  r2 \cup MSucc(m, r2)

\* every emission but F has a delay distribution (Exponential or LogNormal)
DelaysSampled(m) ==
    \A s \in MStates : \A a \in m.actions[s] :
        a.emission # "F" => a.delay = "sampled"

\* every emission of the model is one FlowOfStreams::next accepts
StreamSymbolsOnly(m) ==
    \A s \in MStates : \A a \in m.actions[s] : a.emission \in {"$", "F"}

\* an F emission is reachable from the start state
FReachable(m) ==
    \E s \in MReachable(m) : \E a \in m.actions[s] : a.emission = "F"

(***************************************************************************)
(* Time, relays and the consensus                                          *)
(*                                                                         *)
(* Times are whole minutes since the start of the simulation.  An epoch    *)
(* lasts until the next consensus is valid, so that a gap in the archive   *)
(* makes consecutive maintenance calls arbitrarily far apart.              *)
(***************************************************************************)
Minutes(n) == n

Days(n) == n * 1440

\* Option<T>: None is <<>> and Some(x) is <<x>>
None == <<>>

Some(x) == <<x>>

\* the first index of the set idx of indexes
FirstOf(idx) == CHOOSE i \in idx : \A j \in idx : i <= j

\* the guard relays the model tracks: the only ones sample_new_guard draws
GuardFps == {"g1", "g2", "g3", "g4"}

Middles == {"m1"}

Exits == {"e1", "e2"}

\* the entries of a consensus of the model: the tracked relays, and "others"
\* for the guards the model does not track, which are all in the consensus
\* ("ok") or of which none is ("missing")
Fps == GuardFps \cup Middles \cup Exits \cup {"others"}

\* a relay is in the consensus with the flags Running and Valid ("ok"),
\* without Running, without Valid, or it is not in the consensus
Statuses == {"ok", "notrunning", "notvalid", "missing"}

\* the guard relays of the consensus that the model does not track
OtherGuards == 5

lookup_relay(cons, fp) == cons[fp] # "missing"

HasRunning(cons, fp) == cons[fp] \in {"ok", "notvalid"}

HasValid(cons, fp) == cons[fp] \in {"ok", "notrunning"}

\* CircuitGenerator::num_relays: the number of guards of the consensus
guards_in_consensus(cons) ==
    (IF lookup_relay(cons, "others") THEN OtherGuards ELSE 0)
        + Cardinality({g \in GuardFps : lookup_relay(cons, g)})

\* every tracked relay but those in missing is Running and Valid
AllOk(missing) == [fp \in Fps |-> IF fp \in missing THEN "missing" ELSE "ok"]

(***************************************************************************)
(* Guard handling (guard.rs)                                               *)
(***************************************************************************)
GUARD_LIFETIME == Days(120)

REMOVE_UNLISTED_GUARDS_AFTER == Days(20)

GUARD_CONFIRMED_MIN_LIFETIME == Days(60)

MIN_FILTERED_SAMPLE == 20

MAX_SAMPLE_SIZE == 60

\* MAX_SAMPLE_THRESHOLD is 0.2, kept as a number of tenths
MAX_SAMPLE_THRESHOLD_TENTHS == 2

N_PRIMARY_GUARDS == 3

N_USABLE_PRIMARY_GUARDS == 1

\* The streams of draws of the model: a generator whose every draw is the
\* smallest value of the range asked for, and one whose every draw is the
\* largest.
RngStreams == {"low", "high"}

\* Rng::gen_range(lo..hi)
gen_range(lo, hi) == IF rng = "low" THEN lo ELSE hi - 1

\* random_past: the time t minus an offset drawn in [0, range)
random_past(t, range) == t - gen_range(0, range)

NoGuards ==
    [sampled_guards |-> <<>>, confirmed_guards |-> <<>>,
     primary_guards |-> <<>>]

is_listed(guard) == guard.first_unlisted_at = None

Fingerprints(seq) == {seq[i].fingerprint : i \in DOMAIN seq}

get_confirmed_on(confirmed_guards, fp) ==
    LET idx == {i \in DOMAIN confirmed_guards :
                    confirmed_guards[i].fingerprint = fp}
    IN  IF idx = {} THEN None
        ELSE Some(confirmed_guards[FirstOf(idx)].confirmed_on)

\* recompute_primary_guards that does not ask whether a guard is listed
recompute_primary_guards_AnyListing(gs) ==
    LET filtered == Fingerprints(gs.sampled_guards)
        IsPrimary(c) == c.fingerprint \in filtered
        cand == SelectSeq(gs.confirmed_guards, IsPrimary)
    IN  [gs EXCEPT !.primary_guards =
            [i \in 1..Min(Len(cand), N_PRIMARY_GUARDS) |-> cand[i].fingerprint]]

\* recompute_primary_guards that never stops collecting
recompute_primary_guards_Unbounded(gs) ==
    LET filtered == Fingerprints(SelectSeq(gs.sampled_guards, is_listed))
        IsPrimary(c) == c.fingerprint \in filtered
        cand == SelectSeq(gs.confirmed_guards, IsPrimary)
    IN  [gs EXCEPT !.primary_guards =
            [i \in 1..Len(cand) |-> cand[i].fingerprint]]

\* the confirmed guards that are sampled and listed, in the order of
\* confirmed_guards, up to N_PRIMARY_GUARDS of them
recompute_primary_guards(gs) ==
    LET filtered == Fingerprints(SelectSeq(gs.sampled_guards, is_listed))
        IsPrimary(c) == c.fingerprint \in filtered
        cand == SelectSeq(gs.confirmed_guards, IsPrimary)
    IN  [gs EXCEPT !.primary_guards =
            [i \in 1..Min(Len(cand), N_PRIMARY_GUARDS) |-> cand[i].fingerprint]]

\* the first loop of timed_updates that calls set_unlisted for every guard
\* that is missing or not Running
UpdateListing_SetAgain(sampled_guards, cons, unlisted_at) ==
    [i \in DOMAIN sampled_guards |->
        LET guard == sampled_guards[i]
        IN  IF lookup_relay(cons, guard.fingerprint)
               /\ HasRunning(cons, guard.fingerprint)
            THEN [guard EXCEPT !.first_unlisted_at = None]
            ELSE [guard EXCEPT !.first_unlisted_at =
                                   Some(unlisted_at[guard.fingerprint])]]

\* the first loop of timed_updates; unlisted_at[fp] is the time set_unlisted
\* draws for the guard fp
UpdateListing(sampled_guards, cons, unlisted_at) ==
    [i \in DOMAIN sampled_guards |->
        LET guard == sampled_guards[i]
        IN  IF lookup_relay(cons, guard.fingerprint)
               /\ HasRunning(cons, guard.fingerprint)
            THEN [guard EXCEPT !.first_unlisted_at = None]
            ELSE IF is_listed(guard)
            THEN [guard EXCEPT !.first_unlisted_at =
                                   Some(unlisted_at[guard.fingerprint])]
            ELSE guard]

\* guards_to_remove that does not ask when a guard was confirmed
guards_to_remove_AnyConfirmation(sampled_guards, confirmed_guards, t) ==
    {sampled_guards[i].fingerprint : i \in
        {j \in DOMAIN sampled_guards :
            LET guard == sampled_guards[j]
            IN  \/ /\ ~is_listed(guard)
                   /\ t - guard.first_unlisted_at[1]
                          >= REMOVE_UNLISTED_GUARDS_AFTER
                \/ t - guard.added_on >= GUARD_LIFETIME}}

\* the guards the second loop of timed_updates collects
guards_to_remove(sampled_guards, confirmed_guards, t) ==
    {sampled_guards[i].fingerprint : i \in
        {j \in DOMAIN sampled_guards :
            LET guard == sampled_guards[j]
                confirmed == get_confirmed_on(confirmed_guards,
                                              guard.fingerprint)
            IN  \/ /\ ~is_listed(guard)
                   /\ t - guard.first_unlisted_at[1]
                          >= REMOVE_UNLISTED_GUARDS_AFTER
                \/ /\ t - guard.added_on >= GUARD_LIFETIME
                   /\ \/ confirmed = None
                      \/ t - confirmed[1] >= GUARD_CONFIRMED_MIN_LIFETIME}}

\* timed_updates, given the draws of set_unlisted
timed_updates_with(gs, t, cons, unlisted_at) ==
    LET sampled == UpdateListing(gs.sampled_guards, cons, unlisted_at)
        gone    == guards_to_remove(sampled, gs.confirmed_guards, t)
        Stays(guard) == guard.fingerprint \notin gone
    IN  recompute_primary_guards(
            [sampled_guards   |-> SelectSeq(sampled, Stays),
             confirmed_guards |-> SelectSeq(gs.confirmed_guards, Stays),
             primary_guards   |-> gs.primary_guards])

\* timed_updates: the guard states it can leave
timed_updates(gs, t, cons) ==
    {timed_updates_with(gs, t, cons,
        [g \in GuardFps |->
            random_past(t, REMOVE_UNLISTED_GUARDS_AFTER \div 5)])}

\* the guards that timed_updates at time t removes from gs in some draw
RemovedBy(gs, after) ==
    Fingerprints(gs.sampled_guards) \ Fingerprints(after.sampled_guards)

\* the tracked guards in the order of their fingerprints
GuardOrder == <<"g1", "g2", "g3", "g4">>

\* CircuitGenerator::sample_new_guard: Some Running guard of the consensus
\* that is not sampled yet, drawn among those in the order of the
\* fingerprints, or None
sample_new_guard(cons, existing) ==
    LET idx == {i \in DOMAIN GuardOrder :
                    /\ lookup_relay(cons, GuardOrder[i])
                    /\ HasRunning(cons, GuardOrder[i])
                    /\ GuardOrder[i] \notin existing}
        nth == gen_range(1, Cardinality(idx) + 1)
    IN  IF idx = {} THEN None
        ELSE Some(GuardOrder[CHOOSE i \in idx :
                                Cardinality({k \in idx : k <= i}) = nth])

SampledGuard(fp, added_on) ==
    [fingerprint |-> fp, added_on |-> added_on, first_unlisted_at |-> None]

ConfirmedGuard(fp, confirmed_on) ==
    [fingerprint |-> fp, confirmed_on |-> confirmed_on]

max_sampled(cons) ==
    Min((MAX_SAMPLE_THRESHOLD_TENTHS * guards_in_consensus(cons)) \div 10,
        MAX_SAMPLE_SIZE)

\* usable_guards: the lists sampled_guards can be when the loop ends (no
\* list where sample_new_guard finds no guard left, which panics)
RECURSIVE usable_guards(_, _, _)
usable_guards(sampled_guards, t, cons) ==
    LET usable == SelectSeq(sampled_guards, is_listed)
    IN  IF Len(usable) < MIN_FILTERED_SAMPLE /\ Len(usable) < max_sampled(cons)
        THEN UNION {usable_guards(
                        Append(sampled_guards,
                               SampledGuard(new_guard,
                                   random_past(t, GUARD_LIFETIME \div 10))),
                        t, cons) :
                      new_guard \in
                        {g \in GuardFps :
                            Some(g) = sample_new_guard(cons,
                                          Fingerprints(sampled_guards))}}
        ELSE {sampled_guards}

\* the loop of usable_guards comes to SampledGuard::new when the circuit
\* generator has no guard left to sample: sample_new_guard(..).unwrap()
RECURSIVE sample_fails(_, _, _)
sample_fails(sampled_guards, t, cons) ==
    LET usable == SelectSeq(sampled_guards, is_listed)
        new_guard == sample_new_guard(cons, Fingerprints(sampled_guards))
    IN  /\ Len(usable) < MIN_FILTERED_SAMPLE
        /\ Len(usable) < max_sampled(cons)
        /\ \/ new_guard = None
           \/ /\ new_guard # None
              /\ sample_fails(
                     Append(sampled_guards,
                            SampledGuard(new_guard[1],
                                random_past(t, GUARD_LIFETIME \div 10))),
                     t, cons)

\* get_guard_for_circuit panics: there is no primary guard and usable_guards
\* panics or returns no guard, so that next() is None and unwrap() panics
get_guard_for_circuit_panics(gs, t, cons) ==
    /\ Len(gs.primary_guards) < N_USABLE_PRIMARY_GUARDS
    /\ \/ sample_fails(gs.sampled_guards, t, cons)
       \/ \E u \in usable_guards(gs.sampled_guards, t, cons) :
             SelectSeq(u, is_listed) = <<>>

\* get_guard_for_circuit: the guard states it can leave, each with the
\* guard it returns (gen_range(0..N_USABLE_PRIMARY_GUARDS) draws index 0)
get_guard_for_circuit(gs, t, cons) ==
    IF Len(gs.primary_guards) >= N_USABLE_PRIMARY_GUARDS
    THEN {[guards |-> gs, guard |-> gs.primary_guards[1]]}
    ELSE {[guards |-> [gs EXCEPT !.sampled_guards = s],
           guard  |-> SelectSeq(s, is_listed)[1].fingerprint] :
             s \in {u \in usable_guards(gs.sampled_guards, t, cons) :
                        SelectSeq(u, is_listed) # <<>>}}

\* mark_as_confirmed: the guard states it can leave
mark_as_confirmed(gs, fp, t) ==
    IF fp \in Fingerprints(gs.confirmed_guards)
    THEN {gs}
    ELSE {recompute_primary_guards(
              [gs EXCEPT !.confirmed_guards =
                  Append(@, ConfirmedGuard(fp,
                                random_past(t, GUARD_LIFETIME \div 10)))])}

\* the guards removed and not sampled again, after a step from gs to after
\* in which timed_updates removed the guards gone
StillRemoved(removed, gone, after) ==
    (removed \cup gone) \ Fingerprints(after.sampled_guards)

(***************************************************************************)
(* Port needs and their handles (needs.rs)                                 *)
(***************************************************************************)
PORT_NEED_COVER_NUM == 2

PORT_NEED_LIFETIME == Minutes(60)

\* the ports the user of the model asks for
Ports == {22, 80, 443}

\* the order in which the hash map of the needs container iterates
NeedsIterOrder == <<22, 80, 443>>

\* Need::new.  arc is the identity of the Arc<Need>: a port has one need at
\* a time and a later need of the port is made at a later time.
Need(port, t, fast, stable) ==
    [port |-> port, expires |-> t + PORT_NEED_LIFETIME, fast |-> fast,
     stable |-> stable, covered |-> 0, arc |-> t]

NoNeeds == [p \in Ports |-> None]

\* NeedHandle: a Weak<Need>, which names the Arc it was made from
NeedHandle(need) == [port |-> need.port, arc |-> need.arc]

\* Weak::upgrade succeeds while the container still owns the need
upgrade(needs, handle) ==
    IF needs[handle.port] # None /\ needs[handle.port][1].arc = handle.arc
    THEN Some(needs[handle.port][1])
    ELSE None

get_port(needs, handle) ==
    IF upgrade(needs, handle) = None THEN None ELSE Some(handle.port)

\* needs_cover that is content with one cover
needs_cover_Once(need) == need.covered < 1

\* needs_cover that compares with <= in place of <
needs_cover_Inclusive(need) == need.covered <= PORT_NEED_COVER_NUM

needs_cover(need) == need.covered < PORT_NEED_COVER_NUM

has_expired(need, t) == need.expires <= t

increment_cover_count(needs, port) ==
    [needs EXCEPT ![port] = Some([@[1] EXCEPT !.covered = @ + 1])]

\* decrement_cover_count that leaves the count as it is
decrement_cover_count_Kept(needs, port) == needs

\* decrement_cover_count asserts that the count is positive; the model lets
\* the count go below 0 where the assertion fails
decrement_cover_count(needs, port) ==
    [needs EXCEPT ![port] = Some([@[1] EXCEPT !.covered = @ - 1])]

\* Drop for NeedHandle that decrements whether or not the need is alive
drop_handle_Blind(needs, handle) ==
    IF needs[handle.port] # None
    THEN decrement_cover_count(needs, handle.port)
    ELSE needs

\* Drop for NeedHandle
drop_handle(needs, handle) ==
    IF upgrade(needs, handle) # None
    THEN decrement_cover_count(needs, handle.port)
    ELSE needs

\* Vec::clear of covered_needs that forgets the handles without dropping them
drop_handles_Forgotten(needs, handles) == needs

\* the handles of the sequence handles are dropped one after the other
RECURSIVE drop_handles(_, _)
drop_handles(needs, handles) ==
    IF handles = <<>> THEN needs
    ELSE drop_handles(drop_handle(needs, Head(handles)), Tail(handles))

\* HashMap::retain over the entries from the i-th on
RECURSIVE retain_unexpired(_, _, _)
retain_unexpired(needs, t, i) ==
    IF i > Len(NeedsIterOrder) THEN needs
    ELSE LET p == NeedsIterOrder[i]
         IN  retain_unexpired(
                 IF needs[p] # None /\ has_expired(needs[p][1], t)
                 THEN [needs EXCEPT ![p] = None] ELSE needs,
                 t, i + 1)

\* remove_expired
remove_expired(needs, t) == retain_unexpired(needs, t, 1)

\* add_need that takes the flags of the call when the need exists
add_need_UpdateFlags(needs, port, t, fast, stable) ==
    IF needs[port] # None
    THEN [needs EXCEPT ![port] =
             Some([needs[port][1] EXCEPT
                      !.fast = fast, !.stable = stable,
                      !.expires = IF has_expired(needs[port][1], t)
                                  THEN t + PORT_NEED_LIFETIME
                                  ELSE @])]
    ELSE [needs EXCEPT ![port] = Some(Need(port, t, fast, stable))]

\* add_need that pushes the expiration of an existing need forward
add_need_Extend(needs, port, t, fast, stable) ==
    IF needs[port] # None
    THEN [needs EXCEPT ![port] =
             Some([@[1] EXCEPT !.expires = t + PORT_NEED_LIFETIME])]
    ELSE [needs EXCEPT ![port] = Some(Need(port, t, fast, stable))]

\* add_need
add_need(needs, port, t, fast, stable) ==
    IF needs[port] # None
    THEN IF has_expired(needs[port][1], t)
         THEN [needs EXCEPT ![port] =
                   Some([@[1] EXCEPT !.expires = t + PORT_NEED_LIFETIME])]
         ELSE needs
    ELSE [needs EXCEPT ![port] = Some(Need(port, t, fast, stable))]

\* get_uncovered_need: the port of the first need that needs cover
get_uncovered_need(needs) ==
    LET idx == {i \in DOMAIN NeedsIterOrder :
                    /\ needs[NeedsIterOrder[i]] # None
                    /\ needs_cover(needs[NeedsIterOrder[i]][1])}
    IN  IF idx = {} THEN None ELSE Some(NeedsIterOrder[FirstOf(idx)])

(***************************************************************************)
(* Circuits and the circuit manager (client.rs)                            *)
(***************************************************************************)
MAX_CIRCUIT_DIRTINESS == Minutes(10)

CIRCUIT_IDLE_TIMEOUT == Minutes(60)

LONG_LIVED_PORTS ==
    {21, 22, 706, 1863, 5050, 5190, 5222, 5223, 6523, 6667, 6697, 8300}

\* the exit policy of the descriptor of an exit: e1 accepts every port and
\* e2 accepts port 80 only
allows_port(exit, port) == IF exit = "e2" THEN port = 80 ELSE port \in Ports

\* ShallowCircuit::from_generated_circuit
ShallowCircuit(relays, stable, fast, t, dirty_time, covered_needs) ==
    [guard |-> relays.guard, middle |-> relays.middle, exit |-> relays.exit,
     time |-> t, dirty_time |-> dirty_time, is_internal |-> FALSE,
     is_stable |-> stable, is_fast |-> fast,
     covered_needs |-> covered_needs]

\* supports_stream without the test of is_stable
supports_stream_AnyStability(circ, port) ==
    /\ ~circ.is_internal
    /\ allows_port(circ.exit, port)

supports_stream(circ, port) ==
    /\ ~circ.is_internal
    /\ ~(~circ.is_stable /\ port \in LONG_LIVED_PORTS)
    /\ allows_port(circ.exit, port)

\* can_be_covered_by_circuit without the test of the stable flag
can_be_covered_by_circuit_AnyStability(needs, handle, circ) ==
    /\ upgrade(needs, handle) # None
    /\ ~(upgrade(needs, handle)[1].fast /\ ~circ.is_fast)
    /\ allows_port(circ.exit, handle.port)

can_be_covered_by_circuit(needs, handle, circ) ==
    /\ upgrade(needs, handle) # None
    /\ ~(upgrade(needs, handle)[1].fast /\ ~circ.is_fast)
    /\ ~(upgrade(needs, handle)[1].stable /\ ~circ.is_stable)
    /\ allows_port(circ.exit, handle.port)

\* CircuitGenerator::build_circuit_with_flags_and_guard: the paths through
\* the given guard it can return; none is the error of the generator
build_circuit(cons, guard, port) ==
    {[guard |-> guard, middle |-> m, exit |-> e] :
        <<m, e>> \in {x \in Middles \X Exits :
                        /\ lookup_relay(cons, guard)
                        /\ cons[x[1]] = "ok"
                        /\ cons[x[2]] = "ok"
                        /\ allows_port(x[2], port)}}

\* the three retain_or_else predicates of timed_client_updates
RetainDirty(circ, t) ==
    circ.dirty_time = None \/ circ.dirty_time[1] + MAX_CIRCUIT_DIRTINESS >= t

RetainClean(circ, t) ==
    circ.dirty_time # None \/ circ.time + CIRCUIT_IDLE_TIMEOUT >= t

\* the third predicate without the test of the flags
RetainUp_NoFlags(circ, cons) ==
    \A relay \in {circ.guard, circ.middle, circ.exit} :
        lookup_relay(cons, relay)

RetainUp(circ, cons) ==
    \A relay \in {circ.guard, circ.middle, circ.exit} :
        /\ lookup_relay(cons, relay)
        /\ HasRunning(cons, relay)
        /\ HasValid(cons, relay)

\* the handles that the circuits of circs hold
RECURSIVE HandlesOf(_)
HandlesOf(circs) ==
    IF circs = <<>> THEN <<>>
    ELSE Head(circs).covered_needs \o HandlesOf(Tail(circs))

\* a state of the circuit manager
Manager(circs, needs, gs) ==
    [circuits |-> circs, port_needs |-> needs, guards |-> gs]

\* The first part of timed_client_updates: the first need, the expired
\* needs, and the three sweeps over the circuits.  Dropping a circuit drops
\* its handles.
SweepCircuits(circs, needs, t, cons, first) ==
    LET n1 == IF first THEN add_need(needs, 80, t, TRUE, FALSE) ELSE needs
        n2 == remove_expired(n1, t)
        KeepD(c) == RetainDirty(c, t)
        DropD(c) == ~RetainDirty(c, t)
        c1 == SelectSeq(circs, KeepD)
        n3 == drop_handles(n2, HandlesOf(SelectSeq(circs, DropD)))
        KeepC(c) == RetainClean(c, t)
        DropC(c) == ~RetainClean(c, t)
        c2 == SelectSeq(c1, KeepC)
        n4 == drop_handles(n3, HandlesOf(SelectSeq(c1, DropC)))
        KeepU(c) == RetainUp(c, cons)
        DropU(c) == ~RetainUp(c, cons)
        c3 == SelectSeq(c2, KeepU)
        n5 == drop_handles(n4, HandlesOf(SelectSeq(c2, DropU)))
    IN  [circuits |-> c3, port_needs |-> n5,
         closed |-> (IF Len(c1) < Len(circs) THEN {"OldDirty"} ELSE {})
                    \cup (IF Len(c2) < Len(c1) THEN {"OldClean"} ELSE {})
                    \cup (IF Len(c3) < Len(c2) THEN {"Down"} ELSE {})]

\* The loop of timed_client_updates that covers the uncovered needs: the
\* states of the manager it can end in; err says that a circuit could not
\* be built, which ends timed_client_updates with the handle dropped;
\* failed is then the need of the handle as it was before the attempt.
RECURSIVE CoverNeeds(_, _, _)
CoverNeeds(m, t, cons) ==
    LET port == get_uncovered_need(m.port_needs)
    IN  IF port = None
        THEN {[m |-> m, err |-> FALSE, failed |-> None]}
        ELSE LET need    == m.port_needs[port[1]][1]
                 covered == increment_cover_count(m.port_needs, port[1])
             IN  UNION {
                   LET paths == build_circuit(cons, g.guard, port[1])
                   IN  IF paths = {}
                       THEN {[m |-> Manager(m.circuits,
                                            drop_handle(covered,
                                                        NeedHandle(need)),
                                            g.guards),
                              err |-> TRUE, failed |-> Some(need)]}
                       ELSE UNION {
                              CoverNeeds(
                                Manager(Append(m.circuits,
                                          ShallowCircuit(path, need.stable,
                                            need.fast, t, None,
                                            <<NeedHandle(need)>>)),
                                        covered, g.guards),
                                t, cons) : path \in paths} :
                   g \in get_guard_for_circuit(m.guards, t, cons)}

\* timed_client_updates: the states it can end in, each with what the
\* sweeps did: the number of circuits they retained and the reasons for
\* which they closed circuits
timed_client_updates(m, t, cons, first) ==
    LET swept == SweepCircuits(m.circuits, m.port_needs, t, cons, first)
    IN  UNION {
          {[m |-> out.m, err |-> out.err,
            maint |-> [retained |-> Len(swept.circuits),
                       closed   |-> swept.closed,
                       failed   |-> out.failed],
            gone  |-> RemovedBy(m.guards, gs)] :
              out \in CoverNeeds(Manager(swept.circuits, swept.port_needs,
                                         gs), t, cons)} :
          gs \in timed_updates(m.guards, t, cons)}

\* get_suitable_dirty_circuit that finds no circuit
get_suitable_dirty_circuit_None(circs, t, port) == 0

\* get_suitable_dirty_circuit: the index of the circuit, or 0
get_suitable_dirty_circuit(circs, t, port) ==
    LET idx == {i \in DOMAIN circs :
                    /\ circs[i].dirty_time # None
                    /\ t < circs[i].dirty_time[1] + MAX_CIRCUIT_DIRTINESS
                    /\ supports_stream(circs[i], port)}
    IN  IF idx = {} THEN 0 ELSE FirstOf(idx)

\* get_suitable_clean_circuit that takes the last such circuit of the list
get_suitable_clean_circuit_Last(circs, port) ==
    LET idx == {i \in DOMAIN circs :
                    /\ circs[i].dirty_time = None
                    /\ supports_stream(circs[i], port)}
    IN  IF idx = {} THEN 0 ELSE CHOOSE i \in idx : \A j \in idx : j <= i

\* get_suitable_clean_circuit: the index of the circuit, or 0
get_suitable_clean_circuit(circs, port) ==
    LET idx == {i \in DOMAIN circs :
                    /\ circs[i].dirty_time = None
                    /\ supports_stream(circs[i], port)}
    IN  IF idx = {} THEN 0 ELSE FirstOf(idx)

\* choose_circuit that makes the dirty circuit it chooses dirty anew
choose_circuit_Redirty(m, t, port, cons) ==
    LET d == get_suitable_dirty_circuit(m.circuits, t, port)
        c == get_suitable_clean_circuit(m.circuits, port)
    IN  IF d # 0
        THEN {[m |-> Manager([m.circuits EXCEPT ![d].dirty_time = Some(t)],
                             m.port_needs, m.guards),
               chosen |-> d, kind |-> "dirty", err |-> FALSE]}
        ELSE IF c # 0
        THEN {[m |-> Manager(
                       [m.circuits EXCEPT ![c] =
                           [@ EXCEPT !.dirty_time = Some(t),
                                     !.covered_needs = <<>>]],
                       drop_handles(m.port_needs,
                                    m.circuits[c].covered_needs),
                       m.guards),
               chosen |-> c, kind |-> "clean", err |-> FALSE]}
        ELSE UNION {
               LET paths == build_circuit(cons, g.guard, port)
               IN  IF paths = {}
                   THEN {[m |-> Manager(m.circuits, m.port_needs, g.guards),
                          chosen |-> 0, kind |-> "none", err |-> TRUE]}
                   ELSE {[m |-> Manager(
                                  Append(m.circuits,
                                    ShallowCircuit(path,
                                      port \in LONG_LIVED_PORTS, TRUE, t,
                                      Some(t), <<>>)),
                                  m.port_needs, g.guards),
                          chosen |-> Len(m.circuits) + 1, kind |-> "new",
                          err |-> FALSE] : path \in paths} :
               g \in get_guard_for_circuit(m.guards, t, cons)}

\* The circuit handle_request chooses: the states of the manager it can
\* leave, each with the index of the chosen circuit and the kind of the
\* choice: a dirty circuit, a clean one or a new one (err: none was built)
choose_circuit(m, t, port, cons) ==
    LET d == get_suitable_dirty_circuit(m.circuits, t, port)
        c == get_suitable_clean_circuit(m.circuits, port)
    IN  IF d # 0
        THEN {[m |-> m, chosen |-> d, kind |-> "dirty", err |-> FALSE]}
        ELSE IF c # 0
        THEN {[m |-> Manager(
                       [m.circuits EXCEPT ![c] =
                           [@ EXCEPT !.dirty_time = Some(t),
                                     !.covered_needs = <<>>]],
                       drop_handles(m.port_needs,
                                    m.circuits[c].covered_needs),
                       m.guards),
               chosen |-> c, kind |-> "clean", err |-> FALSE]}
        ELSE UNION {
               LET paths == build_circuit(cons, g.guard, port)
               IN  IF paths = {}
                   THEN {[m |-> Manager(m.circuits, m.port_needs, g.guards),
                          chosen |-> 0, kind |-> "none", err |-> TRUE]}
                   ELSE {[m |-> Manager(
                                  Append(m.circuits,
                                    ShallowCircuit(path,
                                      port \in LONG_LIVED_PORTS, TRUE, t,
                                      Some(t), <<>>)),
                                  m.port_needs, g.guards),
                          chosen |-> Len(m.circuits) + 1, kind |-> "new",
                          err |-> FALSE] : path \in paths} :
               g \in get_guard_for_circuit(m.guards, t, cons)}

\* does circ hold a handle of a living need of the port?
CoversPort(needs, circ, port) ==
    \E i \in DOMAIN circ.covered_needs :
        get_port(needs, circ.covered_needs[i]) = Some(port)

\* The end of handle_request: the need of the port is added; if it needs
\* cover a handle is made and given to the first clean circuit that does
\* not cover the port yet and can cover the need, or else dropped.
stream_update_port_needs(circs, needs, t, port) ==
    LET n1 == add_need(needs, port, t, TRUE, port \in LONG_LIVED_PORTS)
        n2 == increment_cover_count(n1, port)
        handle == NeedHandle(n1[port][1])
        idx == {i \in DOMAIN circs :
                    /\ circs[i].dirty_time = None
                    /\ ~CoversPort(n2, circs[i], port)
                    /\ can_be_covered_by_circuit(n2, handle, circs[i])}
    IN  IF ~needs_cover(n1[port][1])
        THEN [circuits |-> circs, port_needs |-> n1]
        ELSE IF idx = {}
        THEN [circuits |-> circs, port_needs |-> drop_handle(n2, handle)]
        ELSE [circuits |-> [circs EXCEPT ![FirstOf(idx)].covered_needs =
                                             Append(@, handle)],
              port_needs |-> n2]

\* handle_request: the states it can end in
handle_request(m, t, port, cons) ==
    UNION {
      IF ch.err
      THEN {[m |-> ch.m, err |-> TRUE, used |-> None]}
      ELSE {LET upd == stream_update_port_needs(ch.m.circuits,
                                                ch.m.port_needs, t, port)
            IN  [m |-> Manager(upd.circuits, upd.port_needs, gs),
                 err |-> FALSE,
                 used |-> Some([circuit |-> ch.m.circuits[ch.chosen],
                                index |-> ch.chosen, kind |-> ch.kind,
                                port |-> port, time |-> t])] :
              gs \in mark_as_confirmed(ch.m.guards,
                                       ch.m.circuits[ch.chosen].guard, t)} :
      ch \in choose_circuit(m, t, port, cons)}

(***************************************************************************)
(* One client driven through its epochs (Client::handle_new_epoch)         *)
(***************************************************************************)
\* the ports of the requests of the model
ClientPorts == {22, 80}

\* the times of the epochs and of the requests of the model
ClientTimes == {0, 50, 60, 65, GUARD_LIFETIME - 5, GUARD_LIFETIME}

\* the consensuses of the epochs of the model: g3, g4 and e2 are not in the
\* network, and at most one relay is not Running and Valid
ClientConsensuses ==
    {AllOk({"g3", "g4", "e2"}),
     [AllOk({"g3", "g4", "e2"}) EXCEPT !["g1"] = "notrunning"],
     [AllOk({"g3", "g4", "e2"}) EXCEPT !["m1"] = "notvalid"],
     AllOk({"g3", "g4", "e1", "e2"})}

NoMaint == [retained |-> 0, closed |-> {}, failed |-> None]

\* Client::new
ClientNew ==
    /\ consensus = AllOk(Fps)
    /\ now = None
    /\ circuits = <<>>
    /\ port_needs = NoNeeds
    /\ guards = NoGuards
    /\ maint = NoMaint
    /\ used = None
    /\ handed = {}
    /\ removed_guards = {}

ClientStart == ClientNew /\ cpc = "run" /\ rng \in RngStreams

ClientIdle == ClientNew /\ cpc = "idle" /\ rng = "low"

\* handle_new_epoch until its loop: the simulation enters the epoch of the
\* consensus cons, valid from t, and the client does its maintenance
EpochStep(times, conss) ==
    /\ \E t \in times, cons \in conss :
         /\ IF now = None THEN TRUE ELSE t > now[1]
         /\ \E out \in timed_client_updates(
                         Manager(circuits, port_needs, guards), t, cons,
                         now = None) :
              /\ consensus' = cons
              /\ now' = Some(t)
              /\ circuits' = out.m.circuits
              /\ port_needs' = out.m.port_needs
              /\ guards' = out.m.guards
              /\ cpc' = IF out.err THEN "error" ELSE cpc
              /\ maint' = out.maint
              /\ used' = None
              /\ removed_guards' =
                     StillRemoved(removed_guards, out.gone, out.m.guards)
    /\ UNCHANGED <<handed, rng, bwVars, mkVars, simVars>>

ClientEpoch == cpc = "run" /\ EpochStep(ClientTimes, ClientConsensuses)

\* one turn of the loop of handle_new_epoch: the user asks for a stream to
\* port at time t; the client does its maintenance and handles the request
RequestStep(times, ports) ==
    /\ now # None
    /\ \E t \in times, port \in ports :
         /\ t >= now[1]
         /\ \E mt \in timed_client_updates(
                        Manager(circuits, port_needs, guards), t, consensus,
                        FALSE) :
              \E out \in IF mt.err
                         THEN {[m |-> mt.m, err |-> TRUE, used |-> None]}
                         ELSE handle_request(mt.m, t, port, consensus) :
                /\ now' = Some(t)
                /\ circuits' = out.m.circuits
                /\ port_needs' = out.m.port_needs
                /\ guards' = out.m.guards
                /\ cpc' = IF out.err THEN "error" ELSE cpc
                /\ maint' = mt.maint
                /\ used' = out.used
                /\ removed_guards' =
                       StillRemoved(removed_guards, mt.gone, out.m.guards)
    /\ UNCHANGED <<consensus, handed, rng, bwVars, mkVars, simVars>>

ClientRequest == cpc = "run" /\ RequestStep(ClientTimes, ClientPorts)

(***************************************************************************)
(* The guard handling driven through its three operations                  *)
(***************************************************************************)
\* the times of the calls of the model
GuardTimes ==
    {0, REMOVE_UNLISTED_GUARDS_AFTER, GUARD_LIFETIME}

\* the consensuses of the model: the first guards, none or one to all of
\* them, are not Running
GuardConsensuses ==
    {[fp \in Fps |-> IF fp \in down THEN "notrunning" ELSE "ok"] :
        down \in {{}, {"g1"}, {"g1", "g2"}, {"g1", "g2", "g3"}, GuardFps}}

GuardStart == ClientNew /\ cpc = "guards" /\ rng \in RngStreams

\* timed_updates at a time t, with the consensus of that time
TimedUpdatesStep(times, conss) ==
    /\ \E t \in times, cons \in conss :
         /\ IF now = None THEN TRUE ELSE t >= now[1]
         /\ \E gs \in timed_updates(guards, t, cons) :
              /\ consensus' = cons
              /\ now' = Some(t)
              /\ guards' = gs
              /\ removed_guards' =
                     StillRemoved(removed_guards, RemovedBy(guards, gs), gs)
    /\ UNCHANGED <<circuits, port_needs, cpc, maint, used, handed, rng,
                   bwVars, mkVars, simVars>>

GuardTimedUpdates ==
    cpc = "guards" /\ TimedUpdatesStep(GuardTimes, GuardConsensuses)

\* get_guard_for_circuit, called for a circuit built at the time of the
\* last timed_updates
GuardGetGuard ==
    /\ cpc = "guards"
    /\ now # None
    /\ \E g \in get_guard_for_circuit(guards, now[1], consensus) :
         /\ guards' = g.guards
         /\ handed' = handed \cup {g.guard}
         /\ removed_guards' = StillRemoved(removed_guards, {}, g.guards)
    /\ UNCHANGED <<consensus, now, circuits, port_needs, cpc, maint, used,
                   rng, bwVars, mkVars, simVars>>

\* mark_as_confirmed, called for the guard of a circuit, which is a guard
\* that get_guard_for_circuit handed out
GuardMarkConfirmed ==
    /\ cpc = "guards"
    /\ now # None
    /\ \E fp \in handed :
         \E gs \in mark_as_confirmed(guards, fp, now[1]) : guards' = gs
    /\ UNCHANGED <<consensus, now, circuits, port_needs, cpc, maint, used,
                   handed, rng, removed_guards, bwVars, mkVars, simVars>>

(***************************************************************************)
(* get_guard_for_circuit with consensuses of few guards                    *)
(***************************************************************************)
\* the consensuses of the model: with all the guards, with the tracked
\* guards only, with two of them only, and these with g1 not Running
SmallConsensuses ==
    {AllOk({}), AllOk({"others"}), AllOk({"others", "g3", "g4"}),
     [AllOk({"others"}) EXCEPT !["g1"] = "notrunning"],
     [AllOk({}) EXCEPT !["g1"] = "notrunning"]}

\* the times of the calls of the model: a guard can be seen before and
\* after each of the three lifetimes has passed
SmallTimes ==
    {0, Days(10), REMOVE_UNLISTED_GUARDS_AFTER, Days(70), GUARD_LIFETIME}

SmallStart == ClientNew /\ cpc = "small" /\ rng \in RngStreams

SmallTimedUpdates ==
    cpc = "small" /\ TimedUpdatesStep(SmallTimes, SmallConsensuses)

\* get_guard_for_circuit, called for a circuit built at the time of the
\* last timed_updates: it returns a guard (used: the guard) or panics
SmallGetGuard ==
    /\ cpc = "small"
    /\ now # None
    /\ IF get_guard_for_circuit_panics(guards, now[1], consensus)
       THEN /\ cpc' = "panic"
            /\ UNCHANGED <<guards, handed, used, removed_guards>>
       ELSE /\ \E g \in get_guard_for_circuit(guards, now[1], consensus) :
                 /\ guards' = g.guards
                 /\ handed' = handed \cup {g.guard}
                 /\ used' = Some([guard |-> g.guard])
                 /\ removed_guards' =
                        StillRemoved(removed_guards, {}, g.guards)
            /\ cpc' = cpc
    /\ UNCHANGED <<consensus, now, circuits, port_needs, maint, rng, bwVars,
                   mkVars, simVars>>

\* mark_as_confirmed for the guard that was returned last
SmallMarkConfirmed ==
    /\ cpc = "small"
    /\ used # None
    /\ \E gs \in mark_as_confirmed(guards, used[1].guard, now[1]) :
         guards' = gs
    /\ UNCHANGED <<consensus, now, circuits, port_needs, cpc, maint, used,
                   handed, rng, removed_guards, bwVars, mkVars, simVars>>

(***************************************************************************)
(* The sample of guards with consensuses of many guards: the guards are    *)
(* numbered, their fingerprints are their numbers, and they come in blocks *)
(* that gain and lose the Running flag together                            *)
(***************************************************************************)
\* the guards of a block: enough of them for a whole sample of
\* MIN_FILTERED_SAMPLE guards, and a number whose fifth is not whole
WideBlockSize == 26

\* as many blocks as it takes to sample more than MAX_SAMPLE_SIZE guards,
\* MIN_FILTERED_SAMPLE of each
WideBlocks == MAX_SAMPLE_SIZE \div MIN_FILTERED_SAMPLE + 1

WideGuards == 1..(WideBlocks * WideBlockSize)

Block(b) == ((b - 1) * WideBlockSize + 1)..(b * WideBlockSize)

\* the consensuses of the model: every guard is in the consensus and those
\* of one block are Running; only the first block is in the consensus
WideConsensuses ==
    {[g \in WideGuards |-> IF g \in Block(b) THEN "ok" ELSE "notrunning"] :
        b \in 1..WideBlocks}
    \cup {[g \in WideGuards |-> IF g \in Block(1) THEN "ok" ELSE "missing"]}

\* the days of the calls of timed_updates
WideTimes == {Days(0), Days(1), Days(2), Days(3)}

\* CircuitGenerator::num_relays: the number of guards of the consensus
wide_num_relays(cons) ==
    Cardinality({g \in DOMAIN cons : lookup_relay(cons, g)})

wide_max_sampled(cons) ==
    Min((MAX_SAMPLE_THRESHOLD_TENTHS * wide_num_relays(cons)) \div 10,
        MAX_SAMPLE_SIZE)

\* sample_new_guard that does not exclude the guards sampled already
wide_sample_new_guard_AnySampled(cons, existing) ==
    LET idx == {g \in DOMAIN cons :
                    lookup_relay(cons, g) /\ HasRunning(cons, g)}
        nth == gen_range(1, Cardinality(idx) + 1)
    IN  IF idx = {} THEN None
        ELSE Some(CHOOSE g \in idx : Cardinality({k \in idx : k <= g}) = nth)

\* CircuitGenerator::sample_new_guard: Some Running guard of the consensus
\* that is not sampled yet, drawn among those in the order of the
\* fingerprints, or None
wide_sample_new_guard(cons, existing) ==
    LET idx == {g \in DOMAIN cons :
                    /\ lookup_relay(cons, g)
                    /\ HasRunning(cons, g)
                    /\ g \notin existing}
        nth == gen_range(1, Cardinality(idx) + 1)
    IN  IF idx = {} THEN None
        ELSE Some(CHOOSE g \in idx : Cardinality({k \in idx : k <= g}) = nth)

\* usable_guards: sampled_guards when the loop ends and the fingerprints it
\* returns; panic says that SampledGuard::new found no guard to sample
RECURSIVE wide_usable_guards(_, _, _)
wide_usable_guards(sampled_guards, t, cons) ==
    LET usable    == SelectSeq(sampled_guards, is_listed)
        new_guard == wide_sample_new_guard(cons, Fingerprints(sampled_guards))
    IN  IF Len(usable) < MIN_FILTERED_SAMPLE
           /\ Len(usable) < wide_max_sampled(cons)
        THEN IF new_guard = None
             THEN [sampled_guards |-> sampled_guards, usable |-> <<>>,
                   panic |-> TRUE]
             ELSE wide_usable_guards(
                      Append(sampled_guards,
                             SampledGuard(new_guard[1],
                                 random_past(t, GUARD_LIFETIME \div 10))),
                      t, cons)
        ELSE [sampled_guards |-> sampled_guards,
              usable |-> [i \in DOMAIN usable |-> usable[i].fingerprint],
              panic |-> FALSE]

WideStart == ClientNew /\ cpc = "wide" /\ rng \in RngStreams

\* timed_updates with the consensus of a later day
WideTimedUpdates ==
    /\ cpc = "wide"
    /\ \E t \in WideTimes, cons \in WideConsensuses :
         /\ IF now = None THEN TRUE ELSE t > now[1]
         /\ LET gs == timed_updates_with(guards, t, cons,
                         [g \in WideGuards |->
                            random_past(t,
                                REMOVE_UNLISTED_GUARDS_AFTER \div 5)])
            IN  /\ consensus' = cons
                /\ now' = Some(t)
                /\ guards' = gs
                /\ removed_guards' =
                       StillRemoved(removed_guards, RemovedBy(guards, gs), gs)
    /\ used' = None
    /\ UNCHANGED <<circuits, port_needs, cpc, maint, handed, rng, bwVars,
                   mkVars, simVars>>

\* get_guard_for_circuit of a client that has no primary guard: it returns
\* the first of the usable guards (used: the guard and the usable guards)
\* or panics
WideGetGuard ==
    /\ cpc = "wide"
    /\ now # None
    /\ used = None
    /\ Len(guards.primary_guards) < N_USABLE_PRIMARY_GUARDS
    /\ LET u == wide_usable_guards(guards.sampled_guards, now[1], consensus)
       IN  IF u.panic \/ u.usable = <<>>
           THEN /\ cpc' = "panic"
                /\ UNCHANGED <<guards, handed, used, removed_guards>>
           ELSE /\ guards' = [guards EXCEPT !.sampled_guards =
                                                u.sampled_guards]
                /\ handed' = handed \cup {u.usable[1]}
                /\ used' = Some([guard |-> u.usable[1], usable |-> u.usable])
                /\ removed_guards' =
                       StillRemoved(removed_guards, {}, guards')
                /\ cpc' = cpc
    /\ UNCHANGED <<consensus, now, circuits, port_needs, maint, rng, bwVars,
                   mkVars, simVars>>

(***************************************************************************)
(* The trace: entries, global counters, writers and the trace worker       *)
(* (trace.rs, observer.rs).  The times of the trace are whole milliseconds *)
(* since the Unix epoch.                                                   *)
(***************************************************************************)
MsPerDay == 86400000

\* the delay between the source and the destination of a packet
TRACE_DELAY == 210

\* crossbeam::channel::bounded(1024)
CHANNEL_CAP == 1024

\* the rows that fill the 49152 bytes after which write_entries flushes
FlushRows == 1

\* time::PrimitiveDateTime: a date, in days since the Unix epoch, and a
\* time of the day
PrimitiveDateTime(date, time) == [date |-> date, time |-> time]

convert_time(timestamp) ==
    PrimitiveDateTime(timestamp \div MsPerDay, timestamp % MsPerDay)

\* PrimitiveDateTime + time::Duration::milliseconds(ms)
plus_milliseconds(dt, ms) ==
    PrimitiveDateTime(dt.date + ((dt.time + ms) \div MsPerDay),
                      (dt.time + ms) % MsPerDay)

\* the instant that a PrimitiveDateTime stands for
instant(dt) == dt.date * MsPerDay + dt.time

TraceEntry(m_id, source_id, source_timestamp, destination_id, dest_timestamp) ==
    [m_id |-> m_id, source_id |-> source_id,
     source_timestamp |-> source_timestamp,
     destination_id |-> destination_id,
     destination_timestamp |-> dest_timestamp]

\* GlobalCounter::get_next on a counter whose next_value is c
counter_get_next(c) == [res |-> c, next_value |-> c + 1]

\* GlobalCounter::get_next_n
counter_get_next_n(c, n) ==
    [res |-> [i \in 1..n |-> c + (i - 1)], next_value |-> c + n]

\* the relays of the consensus, in its order; exit: the relay has flag Exit
SimRelays ==
    <<[fingerprint |-> "g1", exit |-> FALSE],
      [fingerprint |-> "e1", exit |-> TRUE],
      [fingerprint |-> "e2", exit |-> TRUE]>>

\* ExitFingerprintSerializer::add_consensus
RECURSIVE add_consensus(_, _)
add_consensus(ser, relays) ==
    IF relays = <<>> THEN ser
    ELSE LET relay == Head(relays)
         IN  add_consensus(
               IF relay.exit /\ relay.fingerprint \notin DOMAIN ser.assigned_ids
               THEN [assigned_ids |-> ser.assigned_ids
                                        @@ (relay.fingerprint :> ser.next_id),
                     next_id |-> ser.next_id + 1]
               ELSE ser,
               Tail(relays))

\* the ExitFingerprintSerializer of the run
exit_ids == add_consensus([assigned_ids |-> <<>>, next_id |-> 0], SimRelays)

\* ExitFingerprintSerializer::get
get_exit_id(fingerprint) ==
    IF fingerprint \in DOMAIN exit_ids.assigned_ids
    THEN Some(exit_ids.assigned_ids[fingerprint])
    ELSE None

\* make_trace_entries that asks for one message id too few
make_trace_entries_ShortIds(timestamps, client_id, sender, message) ==
    LET s   == counter_get_next(sender)
        ids == counter_get_next_n(message, Max(Len(timestamps), 1) - 1)
    IN  [NEXT_SENDER |-> s.next_value, NEXT_MESSAGE |-> ids.next_value,
         entries |->
            [i \in 1..Min(Len(timestamps), Len(ids.res)) |->
                LET source_timestamp == convert_time(timestamps[i])
                IN  TraceEntry(ids.res[i], s.res, source_timestamp, client_id,
                        plus_milliseconds(source_timestamp, TRACE_DELAY))]]

\* make_trace_entries, called with the counters at sender and message: the
\* counters it leaves and the entries of its iterator (zip stops at the
\* shorter of the two lists)
make_trace_entries(timestamps, client_id, sender, message) ==
    LET s   == counter_get_next(sender)
        ids == counter_get_next_n(message, Len(timestamps))
    IN  [NEXT_SENDER |-> s.next_value, NEXT_MESSAGE |-> ids.next_value,
         entries |->
            [i \in 1..Min(Len(timestamps), Len(ids.res)) |->
                LET source_timestamp == convert_time(timestamps[i])
                IN  TraceEntry(ids.res[i], s.res, source_timestamp, client_id,
                        plus_milliseconds(source_timestamp, TRACE_DELAY))]]

\* write_entries whose flush sends only the rows of the last call
write_entries_LastOnly(buffer, entries) ==
    IF Len(buffer \o entries) > FlushRows
    THEN [buffer |-> <<>>, sent |-> <<Some(entries)>>]
    ELSE [buffer |-> buffer \o entries, sent |-> <<>>]

\* MemoryCsvWriter::write_entries on a writer that holds the rows buffer:
\* the rows it holds afterwards and the chunks it sends
write_entries(buffer, entries) ==
    IF Len(buffer \o entries) > FlushRows
    THEN [buffer |-> <<>>, sent |-> <<Some(buffer \o entries)>>]
    ELSE [buffer |-> buffer \o entries, sent |-> <<>>]

\* ClientObserver::notify_circuit_used of the client client_id
notify_circuit_used(client_id, exit, timestamps, buffer, sender, message) ==
    LET exit_id == get_exit_id(exit)
        made    == make_trace_entries(timestamps, exit_id[1], sender, message)
        wr      == write_entries(buffer, made.entries)
    IN  [NEXT_SENDER |-> made.NEXT_SENDER, NEXT_MESSAGE |-> made.NEXT_MESSAGE,
         buffer |-> wr.buffer, sent |-> wr.sent,
         notified |-> [client |-> client_id, exit |-> exit,
                       timestamps |-> timestamps, entries |-> made.entries]]

\* TraceWorker::run, one turn of its loop: a chunk is received and written
TraceWorkerRecv ==
    /\ channel # <<>>
    /\ Head(channel) # None
    /\ file' = file \o Head(channel)[1]
    /\ channel' = Tail(channel)
    /\ UNCHANGED <<spc, nworkers, epoch, num_threads, thread_rng, sclients,
                   running, writers, NEXT_SENDER, NEXT_MESSAGE, notified,
                   prev_run, bwVars, mkVars, clVars, counter,
                   epochs>>

(***************************************************************************)
(* circuit_used notifications with arbitrary packet timestamps             *)
(***************************************************************************)
\* the clients of the model: Client::new(id, ..) for id in 0..num_clients
SimClientIds == {0, 1}

\* the threads of the largest worker pool of the model, which are also the
\* sizes of the pool of the model
SimWorkers == {1, 2}

\* the most response packets of a request
MaxPackets == 2

\* the most messages of a run of notifications
MaxMessages == 3

\* the most streams of a run of notifications
MaxStreams == 3

TraceTimes == {100, MsPerDay - TRACE_DELAY, MsPerDay - 100}

\* the packet timestamps of a request: generate_timestamps never goes back
TraceTimestampLists ==
    UNION {{ts \in [1..n -> TraceTimes] :
                \A i \in 1..n : \A j \in 1..n : i < j => ts[i] <= ts[j]} :
           n \in 0..MaxPackets}

\* ---- GlobalCounter (trace.rs): next_value behind a Mutex, called by threads
CounterThreads == {1, 2}

\* the calls the threads make in one behaviour, and the largest n they pass
MaxCalls == 3

MaxN == 2

\* the calls: get_next(), and get_next_n(n)
CounterOps ==
    {[fn |-> "get_next", n |-> 1]}
        \cup {[fn |-> "get_next_n", n |-> n] : n \in 0..MaxN}

\* Mutex::lock returns to a thread only while no thread holds the guard
lock_Unguarded(mutex) == TRUE

lock(mutex) == mutex = None

\* GlobalCounter::new: no thread holds the mutex, no call is under way;
\* returned: the calls that returned, in the order they returned
GlobalCounter(first_value) ==
    [next_value |-> first_value,
     mutex |-> None,
     calls |-> [t \in CounterThreads |-> None],
     returned |-> <<>>]

\* the calls that are under way
CallsUnderWay == {t \in CounterThreads : counter.calls[t] # None}

\* the loop over the consensuses has not been entered
NoEpochs == [pc |-> "no", handles |-> <<>>, end_time |-> 0, ranges |-> <<>>]

\* the state of the trace and of the simulation when the program starts
SimNew ==
    /\ epoch = 1
    /\ num_threads = 0
    /\ thread_rng = [w \in SimWorkers |-> None]
    /\ running = [w \in SimWorkers |-> None]
    /\ writers = [w \in SimWorkers |-> <<>>]
    /\ NEXT_SENDER = 0
    /\ NEXT_MESSAGE = 0
    /\ channel = <<>>
    /\ file = <<>>
    /\ notified = None
    /\ prev_run = None
    /\ counter = GlobalCounter(0)
    /\ epochs = NoEpochs

\* a client calls notify_circuit_used with the writer of the thread 1
TraceNotify ==
    /\ spc = "trace"
    /\ \E c \in SimClientIds, exit \in DOMAIN exit_ids.assigned_ids,
          timestamps \in TraceTimestampLists :
         /\ NEXT_SENDER < MaxStreams
         /\ NEXT_MESSAGE + Len(timestamps) <= MaxMessages
         /\ LET r == notify_circuit_used(c, exit, timestamps, writers[1],
                                         NEXT_SENDER, NEXT_MESSAGE)
            IN  /\ Len(channel) + Len(r.sent) <= CHANNEL_CAP
                /\ NEXT_SENDER' = r.NEXT_SENDER
                /\ NEXT_MESSAGE' = r.NEXT_MESSAGE
                /\ writers' = [writers EXCEPT ![1] = r.buffer]
                /\ channel' = channel \o r.sent
                /\ notified' = Some(r.notified)
    /\ UNCHANGED <<spc, nworkers, epoch, num_threads, thread_rng, sclients,
                   running, file, prev_run, bwVars, mkVars, clVars, counter,
                   epochs>>

(***************************************************************************)
(* One run of the simulation (sim.rs): the epochs, the clients handled in  *)
(* parallel by the threads of the pool, the generators of the threads      *)
(* (seeded_rand.rs)                                                        *)
(***************************************************************************)
SimStartTime == MsPerDay - 400

\* the epochs of the model: consecutive consensuses
SimEpochs ==
    <<[start |-> SimStartTime,       end |-> SimStartTime + 200],
      [start |-> SimStartTime + 200, end |-> SimStartTime + 400]>>

\* the exits in the order of the circuit generator
SimExitOrder == <<"e1", "e2">>

\* The output number pos of the generator that is seeded for the thread
\* that was the num-th to ask for its generator: some fixed function of
\* the seed of the run, num and pos.
Sample(num, pos) == (num + 2 * pos) % 3

\* get_rng of a thread whose THREAD_SEEDED_RNG is trng: the generator, made
\* with get_next_seed at the first use, and num_threads afterwards
get_rng(trng, nthreads) ==
    IF trng = None
    THEN [rng |-> [num |-> nthreads + 1, pos |-> 0],
          num_threads |-> nthreads + 1]
    ELSE [rng |-> trng[1], num_threads |-> nthreads]

Request(time, port, packet_timestamps) ==
    [time |-> time, port |-> port, packet_timestamps |-> packet_timestamps]

\* the next request of a user model at current_time whose draws gave v:
\* the request and the time before which no further request is made
user_next(current_time, v) ==
    LET time    == current_time + 100 * (1 + (v % 2))
        packets == [i \in 1..Min(v, MaxPackets) |-> time + 50 * i]
    IN  [request |-> Request(time, 443, packets),
         current_time |-> IF packets = <<>> THEN time
                          ELSE packets[Len(packets)]]

\* the start of the simulated range, which is where the user models
\* start: at the first consensus of the archive or before it
UserStartTimes == {SimStartTime - 200, SimStartTime}

\* Client::new with a user model that starts at start_time; started and
\* finished: the epochs for which handle_new_epoch was entered and returned
SimClient(start_time) ==
    [start_time |-> start_time, current_time |-> start_time,
     peeked |-> None, task |-> "todo", requests |-> <<>>,
     started |-> <<>>, finished |-> <<>>]

\* collect that returns as soon as one client has been handled
collect_First(clients) == \E c \in SimClientIds : clients[c].task = "done"

\* par_iter_mut().map(..).collect() returns when handle_new_epoch has
\* returned for every client
collect(clients) == \A c \in SimClientIds : clients[c].task = "done"

\* Peekable::peek of the user model of the client cl, on a thread whose
\* generator is trng
peek(cl, trng, nthreads) ==
    IF cl.peeked # None
    THEN [request |-> cl.peeked[1], current_time |-> cl.current_time,
          thread_rng |-> trng, num_threads |-> nthreads]
    ELSE LET g == get_rng(trng, nthreads)
             u == user_next(cl.current_time, Sample(g.rng.num, g.rng.pos))
         IN  [request |-> u.request, current_time |-> u.current_time,
              thread_rng |-> Some([g.rng EXCEPT !.pos = @ + 1]),
              num_threads |-> g.num_threads]

InEpoch(request, e) ==
    request.time >= SimEpochs[e].start /\ request.time < SimEpochs[e].end

\* the writer a task is given: TraceHandle::get_writer
TaskWriter == <<>>

\* what a run has produced: the requests and circuits of every client and
\* the rows of the trace
Outcome ==
    [requests |-> [c \in SimClientIds |-> sclients[c].requests],
     file |-> file]

SimStart ==
    /\ SimNew
    /\ spc = "run"
    /\ nworkers \in SimWorkers
    /\ \E t \in UserStartTimes :
         sclients = [c \in SimClientIds |-> SimClient(t)]

SimIdle ==
    /\ SimNew
    /\ spc = "idle"
    /\ nworkers = 1
    /\ sclients = [c \in SimClientIds |-> SimClient(SimStartTime)]

\* the threads start with a fresh counter
CounterStart ==
    /\ SimNew
    /\ spc = "counter"
    /\ nworkers = 1
    /\ sclients = [c \in SimClientIds |-> SimClient(SimStartTime)]

\* a thread enters get_next or get_next_n: self.inner.lock().unwrap()
CounterLock ==
    /\ spc = "counter"
    /\ Len(counter.returned) + Cardinality(CallsUnderWay) < MaxCalls
    /\ \E t \in CounterThreads \ CallsUnderWay, op \in CounterOps :
         /\ lock(counter.mutex)
         /\ counter' = [counter EXCEPT
                !.mutex = Some(t),
                !.calls[t] = Some([fn |-> op.fn, n |-> op.n, pc |-> "locked",
                                   first_value |-> 0])]
    /\ UNCHANGED <<spc, nworkers, epoch, num_threads, thread_rng, sclients,
                   running, writers, NEXT_SENDER, NEXT_MESSAGE, channel, file,
                   notified, prev_run, epochs, bwVars, mkVars, clVars>>

\* let res = inner.next_value; / let first_value = inner.next_value;
CounterRead ==
    /\ spc = "counter"
    /\ \E t \in CallsUnderWay :
         /\ counter.calls[t][1].pc = "locked"
         /\ counter' = [counter EXCEPT
                !.calls[t][1].first_value = counter.next_value,
                !.calls[t][1].pc = "read"]
    /\ UNCHANGED <<spc, nworkers, epoch, num_threads, thread_rng, sclients,
                   running, writers, NEXT_SENDER, NEXT_MESSAGE, channel, file,
                   notified, prev_run, epochs, bwVars, mkVars, clVars>>

\* inner.next_value += 1; / inner.next_value += n; the block of get_next_n
\* ends here and drops the guard
CounterAdd ==
    /\ spc = "counter"
    /\ \E t \in CallsUnderWay :
         LET call == counter.calls[t][1] IN
         /\ call.pc = "read"
         /\ counter' = [counter EXCEPT
                !.next_value = @ + call.n,
                !.mutex = IF call.fn = "get_next_n" THEN None ELSE @,
                !.calls[t][1].pc = "added"]
    /\ UNCHANGED <<spc, nworkers, epoch, num_threads, thread_rng, sclients,
                   running, writers, NEXT_SENDER, NEXT_MESSAGE, channel, file,
                   notified, prev_run, epochs, bwVars, mkVars, clVars>>

\* the values a call returns
call_result(call) ==
    IF call.fn = "get_next"
    THEN <<counter_get_next(call.first_value).res>>
    ELSE counter_get_next_n(call.first_value, call.n).res

\* the call returns: res / (first_value..first_value + n).collect(); get_next
\* drops the guard here
CounterReturn ==
    /\ spc = "counter"
    /\ \E t \in CallsUnderWay :
         LET call == counter.calls[t][1] IN
         /\ call.pc = "added"
         /\ counter' = [counter EXCEPT
                !.mutex = IF call.fn = "get_next" THEN None ELSE @,
                !.calls[t] = None,
                !.returned = Append(@, [thread |-> t, fn |-> call.fn,
                                        n |-> call.n,
                                        res |-> call_result(call)])]
    /\ UNCHANGED <<spc, nworkers, epoch, num_threads, thread_rng, sclients,
                   running, writers, NEXT_SENDER, NEXT_MESSAGE, channel, file,
                   notified, prev_run, epochs, bwVars, mkVars, clVars>>

TraceStart ==
    /\ SimNew
    /\ spc = "trace"
    /\ nworkers = 1
    /\ sclients = [c \in SimClientIds |-> SimClient(SimStartTime)]

\* par_iter_mut: an idle thread of the pool takes the next client
SimDispatch ==
    /\ spc = "run"
    /\ \E w \in 1..nworkers :
         /\ running[w] = None
         /\ \E c \in SimClientIds :
              /\ sclients[c].task = "todo"
              /\ \A d \in SimClientIds : sclients[d].task = "todo" => c <= d
              /\ sclients' = [sclients EXCEPT
                                  ![c].task = "run",
                                  ![c].started = Append(@, epoch)]
              /\ running' = [running EXCEPT ![w] = Some(c)]
              /\ writers' = [writers EXCEPT ![w] = TaskWriter]
    /\ UNCHANGED <<spc, nworkers, epoch, num_threads, thread_rng,
                   NEXT_SENDER, NEXT_MESSAGE, channel, file, notified,
                   prev_run, bwVars, mkVars, clVars, counter,
                   epochs>>

\* one turn of the loop of handle_new_epoch on the thread w: the next
\* request is in the epoch and is handled on a circuit whose exit the
\* circuit generator draws
SimRequest ==
    /\ spc = "run"
    /\ \E w \in 1..nworkers :
         /\ running[w] # None
         /\ LET c  == running[w][1]
                pk == peek(sclients[c], thread_rng[w], num_threads)
                g  == get_rng(pk.thread_rng, pk.num_threads)
                exit == SimExitOrder[1 + (Sample(g.rng.num, g.rng.pos) % 2)]
                r  == notify_circuit_used(c, exit,
                          pk.request.packet_timestamps, writers[w],
                          NEXT_SENDER, NEXT_MESSAGE)
            IN  /\ InEpoch(pk.request, epoch)
                /\ Len(channel) + Len(r.sent) <= CHANNEL_CAP
                /\ num_threads' = g.num_threads
                /\ thread_rng' = [thread_rng EXCEPT
                                     ![w] = Some([g.rng EXCEPT !.pos = @ + 1])]
                /\ sclients' = [sclients EXCEPT ![c] =
                       [@ EXCEPT !.current_time = pk.current_time,
                                 !.peeked = None,
                                 !.requests = Append(@,
                                     [request |-> pk.request,
                                      exit |-> exit])]]
                /\ NEXT_SENDER' = r.NEXT_SENDER
                /\ NEXT_MESSAGE' = r.NEXT_MESSAGE
                /\ writers' = [writers EXCEPT ![w] = r.buffer]
                /\ channel' = channel \o r.sent
                /\ notified' = Some(r.notified)
    /\ UNCHANGED <<spc, nworkers, epoch, running, file, prev_run, bwVars,
                   mkVars, clVars, counter,
                   epochs>>

\* the end of handle_new_epoch on the thread w: the next request is not in
\* the epoch and stays peeked; the writer of the task is dropped, which
\* flushes it
SimTaskEnd ==
    /\ spc = "run"
    /\ \E w \in 1..nworkers :
         /\ running[w] # None
         /\ LET c  == running[w][1]
                pk == peek(sclients[c], thread_rng[w], num_threads)
            IN  /\ ~InEpoch(pk.request, epoch)
                /\ Len(channel) < CHANNEL_CAP
                /\ num_threads' = pk.num_threads
                /\ thread_rng' = [thread_rng EXCEPT ![w] = pk.thread_rng]
                /\ sclients' = [sclients EXCEPT ![c] =
                       [@ EXCEPT !.current_time = pk.current_time,
                                 !.peeked = Some(pk.request),
                                 !.task = "done",
                                 !.finished = Append(@, epoch)]]
                /\ running' = [running EXCEPT ![w] = None]
                /\ channel' = Append(channel, Some(writers[w]))
                /\ writers' = [writers EXCEPT ![w] = <<>>]
    /\ UNCHANGED <<spc, nworkers, epoch, NEXT_SENDER, NEXT_MESSAGE, file,
                   notified, prev_run, bwVars, mkVars, clVars, counter,
                   epochs>>

\* the loop over the consensuses: every client has handled the epoch
SimNextEpoch ==
    /\ spc = "run"
    /\ collect(sclients)
    /\ epoch < Len(SimEpochs)
    /\ epoch' = epoch + 1
    /\ sclients' = [c \in SimClientIds |->
                       [sclients[c] EXCEPT !.task = "todo"]]
    /\ UNCHANGED <<spc, nworkers, num_threads, thread_rng, running, writers,
                   NEXT_SENDER, NEXT_MESSAGE, channel, file, notified,
                   prev_run, bwVars, mkVars, clVars, counter,
                   epochs>>

\* TraceHandle::stop_and_join after the last epoch
SimFinish ==
    /\ spc = "run"
    /\ collect(sclients)
    /\ epoch = Len(SimEpochs)
    /\ Len(channel) < CHANNEL_CAP
    /\ channel' = Append(channel, None)
    /\ spc' = "stopping"
    /\ UNCHANGED <<nworkers, epoch, num_threads, thread_rng, sclients,
                   running, writers, NEXT_SENDER, NEXT_MESSAGE, file,
                   notified, prev_run, bwVars, mkVars, clVars, counter,
                   epochs>>

\* TraceWorker::run receives None and returns
TraceWorkerStop ==
    /\ spc = "stopping"
    /\ channel # <<>>
    /\ Head(channel) = None
    /\ channel' = Tail(channel)
    /\ spc' = "done"
    /\ UNCHANGED <<nworkers, epoch, num_threads, thread_rng, sclients,
                   running, writers, NEXT_SENDER, NEXT_MESSAGE, file,
                   notified, prev_run, bwVars, mkVars, clVars, counter,
                   epochs>>

\* the program is run once more, with the same seed and the same inputs
SimRerun ==
    /\ spc = "done"
    /\ prev_run = None
    /\ prev_run' = Some(Outcome)
    /\ spc' = "run"
    /\ nworkers' \in SimWorkers
    /\ epoch' = 1
    /\ num_threads' = 0
    /\ thread_rng' = [w \in SimWorkers |-> None]
    /\ sclients' = [c \in SimClientIds |->
                       SimClient(sclients[c].start_time)]
    /\ running' = [w \in SimWorkers |-> None]
    /\ writers' = [w \in SimWorkers |-> <<>>]
    /\ NEXT_SENDER' = 0
    /\ NEXT_MESSAGE' = 0
    /\ channel' = <<>>
    /\ file' = <<>>
    /\ notified' = None
    /\ UNCHANGED <<bwVars, mkVars, clVars, counter,
                   epochs>>

(***************************************************************************)
(* The user model (user.rs, packet_model/mod.rs): PrivcountUser::next, one *)
(* turn of its loop at a time.  Times are microseconds.                    *)
(***************************************************************************)
\* the latest time of the flow clock of the model
MaxUserTime == MaxNotAfter + 2

\* the stream models of the user: the state a starts streams, with a
\* sampled delay or none, or ends the flow
UserStreamModels ==
    {[transitions |-> [s \in MStates \cup {"start"} |-> {"a"}],
      actions     |-> [s \in MStates |-> acts]] :
        acts \in {{MAction("$", "sampled"), MAction("F", "none")},
                  {MAction("$", "none"), MAction("F", "sampled")}}}

\* the packet model of the user: the state a sends a packet from the
\* server ("-", collected) or from the client ("+", ignored), with a
\* sampled delay, or ends the stream
PacketModel ==
    [transitions |-> [s \in MStates \cup {"start"} |-> {"a"}],
     actions     |-> [s \in MStates |->
                         {MAction("+", "sampled"), MAction("-", "sampled"),
                          MAction("F", "none")}]]

\* MarkovChain::new
MarkovChain(current_time) ==
    [current_state |-> "start", current_time |-> current_time,
     stopped |-> FALSE]

advance_to_Start(c, new_time) == [c EXCEPT !.current_time = 0]

\* MarkovChain::advance_to, FlowOfStreams::advance_to
advance_to(c, new_time) == [c EXCEPT !.current_time = new_time]

\* the draws get_next can make in a chain of model m in state c
Draws(m, c) ==
    UNION {{[next_state |-> ns, action |-> action, delay |-> delay] :
               action \in m.actions[ns], delay \in 0..MaxDelay} :
           ns \in m.transitions[c.current_state]}

\* get_next has set current_time to not_after
Clamped(c, na, draw) == ~c.stopped /\ draw.delay >= na - c.current_time

\* one turn of the loop of generate_timestamps that collects the packets
\* of both directions
timestamps_step_BothDirections(m, run, na) ==
    {LET r == get_next(run.chain, na, draw.next_state, draw.action,
                       draw.delay)
     IN  [chain |-> r.chain,
          res |-> IF r.ret[2] \in {"-", "+"} THEN Append(run.res, r.ret[1])
                  ELSE run.res,
          clamped |-> run.clamped \/ Clamped(run.chain, na, draw),
          emitted |-> Append(run.emitted, r.ret),
          done |-> r.ret[2] \in {"F", "$"},
          err |-> r.ret[2] = "$"] :
       draw \in {dr \in Draws(m, run.chain) :
                   dr.delay \in SampleDelays(dr.action)}}

\* one turn of the loop of generate_timestamps in a chain of the model m,
\* in run (the chain, the timestamps so far, whether a step was clamped,
\* the pairs get_next has returned): the runs after it, done when the
\* loop is left, by break on F or with the error on $
timestamps_step(m, run, na) ==
    {LET r == get_next(run.chain, na, draw.next_state, draw.action,
                       draw.delay)
     IN  [chain |-> r.chain,
          res |-> IF r.ret[2] = "-" THEN Append(run.res, r.ret[1])
                  ELSE run.res,
          clamped |-> run.clamped \/ Clamped(run.chain, na, draw),
          emitted |-> Append(run.emitted, r.ret),
          done |-> r.ret[2] \in {"F", "$"},
          err |-> r.ret[2] = "$"] :
       draw \in {dr \in Draws(m, run.chain) :
                   dr.delay \in SampleDelays(dr.action)}}

\* the runs of generate_timestamps after some calls of get_next, from runs
\* under way and runs done; no run makes more than 2 * MaxPackets calls or
\* collects more than MaxPackets timestamps
RECURSIVE timestamps_runs(_, _, _, _, _)
timestamps_runs(m, underway, done, na, steps) ==
    IF underway = {} \/ steps >= 2 * MaxPackets
    THEN done
    ELSE LET after == {run \in UNION {timestamps_step(m, u, na) :
                                         u \in underway} :
                          Len(run.res) <= MaxPackets}
         IN  timestamps_runs(m, {run \in after : ~run.done},
                             done \cup {run \in after : run.done},
                             na, steps + 1)

\* PacketStream::generate_timestamps of a chain of the model m made at
\* time: the results it can have, the vector of timestamps or the error,
\* each with whether a step was clamped and what get_next returned
generate_timestamps(m, time, na) ==
    {[timestamps |-> run.res, clamped |-> run.clamped, err |-> run.err,
      emitted |-> run.emitted] :
        run \in timestamps_runs(m, {[chain |-> MarkovChain(time),
                                     res |-> <<>>, clamped |-> FALSE,
                                     emitted |-> <<>>, done |-> FALSE,
                                     err |-> FALSE]},
                                {}, na, 0)}

\* a packet stream is made at time 0 from some model
PacketStart ==
    /\ mmodel \in MModels
    /\ not_after \in 1..MaxNotAfter
    /\ chain = MarkovChain(0)
    /\ mpc = "packets"
    /\ mout = <<0, "none">>
    /\ puser = PrivcountUser(0)

\* PacketStream::generate_timestamps returns; mout is its result, with what
\* get_next returned in its loop
PacketGenerate ==
    /\ mpc = "packets"
    /\ \E g \in generate_timestamps(mmodel, chain.current_time, not_after) :
         /\ mout' = [result |-> IF g.err THEN <<"Err">>
                                ELSE <<"Ok", g.timestamps>>,
                     emitted |-> g.emitted]
         /\ mpc' = IF g.err THEN "packets error" ELSE "packets done"
    /\ UNCHANGED <<mmodel, not_after, chain, puser, bwVars, clVars, simVars>>

\* ExponentialFlowModel::next with the sampled delay
flow_model_next(fm, delay) == [current_time |-> fm.current_time + delay]

UserStart ==
    /\ mmodel \in UserStreamModels
    /\ not_after \in 1..MaxNotAfter
    /\ chain = MarkovChain(0)
    /\ mpc = "user"
    /\ mout = <<0, "none">>
    /\ \E fna \in {not_after, MaxUserTime + MaxDelay + 1} :
         puser = [PrivcountUser(0) EXCEPT !.flow_not_after = fna]

\* the turn of the loop without a flow: the flow model gives the time of
\* the next flow and make_flow makes its chain
UserNewFlow ==
    /\ mpc = "user"
    /\ puser.current_flow = None
    /\ \E delay \in 0..MaxDelay :
         LET fm == flow_model_next(puser.flow_model, delay) IN
         /\ fm.current_time <= MaxUserTime
         /\ puser' = [puser EXCEPT
                         !.flow_model = fm,
                         !.current_flow = Some(MarkovChain(fm.current_time))]
    /\ UNCHANGED <<mmodel, not_after, chain, mpc, mout, bwVars, clVars,
                   simVars>>

\* the turn of the loop in which the flow returns None: it is dropped
UserFlowEnd ==
    /\ mpc = "user"
    /\ puser.current_flow # None
    /\ LET c == puser.current_flow[1] IN
       \E draw \in Draws(mmodel, c) :
         LET r == get_next(c, puser.flow_not_after, draw.next_state,
                           draw.action, draw.delay) IN
         /\ c.stopped \/ draw.delay \in SampleDelays(draw.action)
         /\ r.ret[2] = "F"
         /\ puser' = [puser EXCEPT !.current_flow = None]
    /\ UNCHANGED <<mmodel, not_after, chain, mpc, mout, bwVars, clVars,
                   simVars>>

\* the turn of the loop in which the flow returns the time of a stream:
\* the response packets are generated, the clocks are advanced to the last
\* of them and next returns the request
UserRequest ==
    /\ mpc = "user"
    /\ puser.current_flow # None
    /\ LET c == puser.current_flow[1] IN
       \E draw \in Draws(mmodel, c) :
         LET r == get_next(c, puser.flow_not_after, draw.next_state,
                           draw.action, draw.delay)
             request_time == r.ret[1]
         IN
         /\ ~c.stopped
         /\ draw.delay \in SampleDelays(draw.action)
         /\ r.ret[2] = "$"
         /\ \E g \in generate_timestamps(PacketModel, request_time, not_after) :
              LET ts == g.timestamps
                  to == IF ts = <<>> THEN request_time ELSE ts[Len(ts)]
              IN  puser' = [puser EXCEPT
                      !.flow_model = [current_time |-> to],
                      !.current_flow =
                          Some(IF ts = <<>> THEN r.chain
                               ELSE advance_to(r.chain, to)),
                      !.prev = puser.last,
                      !.last = Some(Request(request_time, 443, ts)),
                      !.clamped = \/ puser.clamped
                                  \/ g.clamped
                                  \/ Clamped(c, puser.flow_not_after, draw)]
    /\ UNCHANGED <<mmodel, not_after, chain, mpc, mout, bwVars, clVars,
                   simVars>>

(***************************************************************************)
(* The needs container driven through add_need and remove_expired          *)
(***************************************************************************)
\* the times of the calls of the model
NeedTimes == {0, 30, PORT_NEED_LIFETIME, PORT_NEED_LIFETIME + 30}

NeedsStart == ClientNew /\ cpc = "needs" /\ rng = "low"

\* add_need with any port and flags, at a time that is not in the past
NeedsAdd ==
    /\ cpc = "needs"
    /\ \E t \in NeedTimes, port \in ClientPorts, fast \in BOOLEAN,
          stable \in BOOLEAN :
         /\ IF now = None THEN TRUE ELSE t >= now[1]
         /\ now' = Some(t)
         /\ port_needs' = add_need(port_needs, port, t, fast, stable)
    /\ UNCHANGED <<consensus, circuits, guards, cpc, maint, used, handed,
                   rng, removed_guards, bwVars, mkVars, simVars>>

\* remove_expired at a time that is not in the past
NeedsRemoveExpired ==
    /\ cpc = "needs"
    /\ \E t \in NeedTimes :
         /\ IF now = None THEN TRUE ELSE t >= now[1]
         /\ now' = Some(t)
         /\ port_needs' = remove_expired(port_needs, t)
    /\ UNCHANGED <<consensus, circuits, guards, cpc, maint, used, handed,
                   rng, removed_guards, bwVars, mkVars, simVars>>

(***************************************************************************)
(* One client and its streams to a long-lived port and to port 443         *)
(***************************************************************************)
\* the times of the epochs and of the requests: less than 5 minutes apart,
\* and MAX_CIRCUIT_DIRTINESS after a circuit became dirty or later
StreamTimes == {0, 3, 13}

StreamPorts == {22, 443}

\* the consensuses of the epochs: both exits are in the network, and the
\* exit that accepts every port may lack the flag Running
StreamConsensuses ==
    {AllOk({"g3", "g4"}),
     [AllOk({"g3", "g4"}) EXCEPT !["e1"] = "notrunning"]}

StreamStart == ClientNew /\ cpc = "stream" /\ rng = "low"

StreamEpoch == cpc = "stream" /\ EpochStep(StreamTimes, StreamConsensuses)

StreamRequest == cpc = "stream" /\ RequestStep(StreamTimes, StreamPorts)

(***************************************************************************)
(* Adversary injection (adversaries.rs)                                    *)
(***************************************************************************)
\* the largest number of adversarial guards, and of adversarial exits
MaxAdvRelays == 1

\* the bandwidth weights of the relays of the model
AdvBws == {1, 4}

Relay(fingerprint, flags, bandwidth_weight) ==
    [fingerprint |-> fingerprint, flags |-> flags,
     bandwidth_weight |-> bandwidth_weight]

\* make_adversarial_guard and make_adversarial_exit: the relay and its
\* descriptor; the fingerprint is the index padded with 0s or with Fs
make_adversarial_guard(index, weight) ==
    [relay |-> Relay(<<"0", index>>,
                     {"Fast", "Guard", "Running", "Stable", "Valid"}, weight),
     descriptor |-> [fingerprint |-> <<"0", index>>]]

make_adversarial_exit(index, weight) ==
    [relay |-> Relay(<<"F", index>>,
                     {"Fast", "Exit", "Running", "Stable", "Valid"}, weight),
     descriptor |-> [fingerprint |-> <<"F", index>>]]

\* Adversary::new: extra_relays for the command-line arguments
Adversary(adv_guards_num, adv_guards_bw, adv_exits_num, adv_exits_bw) ==
    [index \in 1..adv_guards_num |->
        make_adversarial_guard(index, adv_guards_bw)]
    \o [index \in 1..adv_exits_num |->
        make_adversarial_exit(index, adv_exits_bw)]

\* the first loop of recompute_bw_weights: the totals of the relays
RECURSIVE collect_totals(_)
collect_totals(relays) ==
    IF relays = <<>> THEN [E |-> 1, G |-> 1, D |-> 1, M |-> 1]
    ELSE LET relay == relays[Len(relays)]
             t == collect_totals(SubSeq(relays, 1, Len(relays) - 1))
             is_exit == /\ "Exit" \in relay.flags
                        /\ "BadExit" \notin relay.flags
         IN  IF is_exit /\ "Guard" \in relay.flags
             THEN [t EXCEPT !.D = @ + relay.bandwidth_weight]
             ELSE IF is_exit
             THEN [t EXCEPT !.E = @ + relay.bandwidth_weight]
             ELSE IF "Guard" \in relay.flags
             THEN [t EXCEPT !.G = @ + relay.bandwidth_weight]
             ELSE [t EXCEPT !.M = @ + relay.bandwidth_weight]

\* v as u64: a negative v wraps to 2^64 + v
as_u64(v) == IF v >= 0 THEN v ELSE <<"2^64 +", v>>

\* the mapping recompute_bw_weights stores in consensus.weights
stored_weights(w) ==
    [Wbd |-> as_u64(w.Wmd), Wbe |-> as_u64(w.Wme), Wbg |-> as_u64(w.Wmg),
     Wbm |-> weightscale, Wdb |-> weightscale, Web |-> weightscale,
     Wed |-> as_u64(w.Wed), Wee |-> as_u64(w.Wee), Weg |-> as_u64(w.Wed),
     Wem |-> as_u64(w.Wee), Wgb |-> weightscale, Wgd |-> as_u64(w.Wgd),
     Wgg |-> as_u64(w.Wgg), Wgm |-> as_u64(w.Wgg), Wmb |-> weightscale,
     Wmd |-> as_u64(w.Wmd), Wme |-> as_u64(w.Wme), Wmg |-> as_u64(w.Wmg),
     Wmm |-> weightscale]

\* modify_consensus that puts the extra relays before the existing ones
modify_consensus_Prepend(a) ==
    LET relays == [i \in DOMAIN a.extra_relays |-> a.extra_relays[i].relay]
                  \o a.relays
        descriptors == [i \in DOMAIN a.extra_relays |->
                           a.extra_relays[i].descriptor]
                       \o a.descriptors
        bw == recompute_bw_weights(collect_totals(relays))
    IN  [a EXCEPT !.relays = relays,
                  !.descriptors = descriptors,
                  !.weights = IF Len(a.extra_relays) > 0 /\ ~bw.panic
                              THEN <<stored_weights(bw.w)>>
                              ELSE @]

\* modify_consensus: the consensus and the descriptors afterwards; when
\* recompute_bw_weights panics the relays are pushed and no weights stored
modify_consensus(a) ==
    LET relays == a.relays
                  \o [i \in DOMAIN a.extra_relays |-> a.extra_relays[i].relay]
        descriptors == a.descriptors
                  \o [i \in DOMAIN a.extra_relays |->
                         a.extra_relays[i].descriptor]
        bw == recompute_bw_weights(collect_totals(relays))
    IN  [a EXCEPT !.relays = relays,
                  !.descriptors = descriptors,
                  !.weights = IF Len(a.extra_relays) > 0 /\ ~bw.panic
                              THEN <<stored_weights(bw.w)>>
                              ELSE @]

\* the relays of the consensuses of the model: a middle relay, a guard, an
\* exit, a guard that is an exit, a bad exit, and a guard that is not
\* Running
AdvRelayFlags ==
    {{"Running", "Valid"}, {"Guard", "Running", "Valid"},
     {"Exit", "Running", "Valid"}, {"Exit", "Guard", "Running", "Valid"},
     {"BadExit", "Exit", "Running", "Valid"}, {"Guard", "Valid"}}

\* the consensuses the archive holds: up to two relays, with the weights
\* of the directory authorities or without weights
AdvConsensuses ==
    {[relays |-> rs,
      descriptors |-> [i \in DOMAIN rs |-> [fingerprint |-> rs[i].fingerprint]],
      weights |-> w] :
        rs \in {<<>>}
               \cup {<<Relay("r1", f, b)>> : f \in AdvRelayFlags, b \in AdvBws}
               \cup {<<Relay("r1", f, b), Relay("r2", g, 1)>> :
                       f \in AdvRelayFlags, g \in AdvRelayFlags, b \in AdvBws},
        w \in {<<>>, <<stored_weights(NoWeights)>>}}

\* Adversary::new for some command line, and the consensus of an epoch
AdvStart ==
    /\ bwpc = "adversary"
    /\ totals = [G |-> 1, M |-> 1, E |-> 1, D |-> 1]
    /\ weights = NoWeights
    /\ \E n \in 0..MaxAdvRelays, m \in 0..MaxAdvRelays, gbw \in AdvBws,
          ebw \in AdvBws, c \in AdvConsensuses :
         adv = [extra_relays |-> Adversary(n, gbw, m, ebw),
                relays |-> c.relays, descriptors |-> c.descriptors,
                weights |-> c.weights]

\* modify_consensus on the consensus of the epoch; totals are the totals
\* recompute_bw_weights has collected, when it is called
AdvModifyConsensus ==
    /\ bwpc = "adversary"
    /\ adv' = modify_consensus(adv)
    /\ bwpc' = IF /\ Len(adv.extra_relays) > 0
                  /\ recompute_bw_weights(collect_totals(adv'.relays)).panic
               THEN "panic" ELSE "modified"
    /\ totals' = IF Len(adv.extra_relays) > 0
                 THEN collect_totals(adv'.relays) ELSE totals
    /\ UNCHANGED <<weights, mkVars, clVars, simVars>>

(***************************************************************************)
(* The epochs of a run (sim.rs, input.rs): Simulator::run finds the        *)
(* consensuses of the archive and enters one epoch per consensus.  Times   *)
(* are minutes; the name of a consensus file is its valid_after.           *)
(***************************************************************************)
\* the largest number of consensuses of the archive of the model
MaxConsensuses == 3

\* the valid_after times of the consensuses an archive of the model holds
ValidAfterTimes == {0, 60, 120, 360}

\* cli.to.last_datetime() of the model: after the last consensus, less or
\* more than 3 hours after it
EndTimes == {400, 500, 600}

\* the orders in which read_dir can list the consensuses of an archive
DirListings ==
    UNION {{h \in [1..n -> ValidAfterTimes] :
               \A i, j \in 1..n : i # j => h[i] # h[j]} :
           n \in 0..MaxConsensuses}

find_consensuses_Unsorted(listing) == listing

\* TorArchive::find_consensuses: the handles sorted by their time
find_consensuses(listing) == SortSeq(listing, LAMBDA a, b : a < b)

\* the range of the epoch of the consensus i of handles
epoch_range(handles, i, end_time) ==
    LET range_start == handles[i]
        range_end == IF i < Len(handles) THEN handles[i + 1]
                     ELSE range_start + 180
    IN  [start |-> range_start, end |-> Min(range_end, end_time)]

EpochsStart ==
    /\ SimNew
    /\ spc = "epochs"
    /\ nworkers = 1
    /\ sclients = [c \in SimClientIds |-> SimClient(SimStartTime)]

\* Simulator::run until the loop: the consensuses are found
EpochsFind ==
    /\ spc = "epochs"
    /\ epochs.pc = "no"
    /\ \E listing \in DirListings, end_time \in EndTimes :
         epochs' = [pc |-> "loop", handles |-> find_consensuses(listing),
                    end_time |-> end_time, ranges |-> <<>>]
    /\ UNCHANGED <<spc, nworkers, epoch, num_threads, thread_rng, sclients,
                   running, writers, NEXT_SENDER, NEXT_MESSAGE, channel, file,
                   notified, prev_run, counter, bwVars, mkVars, clVars>>

\* one turn of the loop over the consensuses: the range of the epoch, with
\* which handle_new_epoch is called for every client
EpochsEnter ==
    /\ spc = "epochs"
    /\ epochs.pc = "loop"
    /\ Len(epochs.ranges) < Len(epochs.handles)
    /\ epochs' = [epochs EXCEPT !.ranges =
                     Append(@, epoch_range(epochs.handles, Len(@) + 1,
                                           epochs.end_time))]
    /\ UNCHANGED <<spc, nworkers, epoch, num_threads, thread_rng, sclients,
                   running, writers, NEXT_SENDER, NEXT_MESSAGE, channel, file,
                   notified, prev_run, counter, bwVars, mkVars, clVars>>

\* the loop is over
EpochsEnd ==
    /\ spc = "epochs"
    /\ epochs.pc = "loop"
    /\ Len(epochs.ranges) = Len(epochs.handles)
    /\ epochs' = [epochs EXCEPT !.pc = "done"]
    /\ UNCHANGED <<spc, nworkers, epoch, num_threads, thread_rng, sclients,
                   running, writers, NEXT_SENDER, NEXT_MESSAGE, channel, file,
                   notified, prev_run, counter, bwVars, mkVars, clVars>>

InitEpochs == EpochsStart /\ BwIdle /\ MkIdle /\ ClientIdle

NextEpochs == EpochsFind \/ EpochsEnter \/ EpochsEnd

SpecEpochs == InitEpochs /\ [][NextEpochs]_vars

InitCounter == CounterStart /\ BwIdle /\ MkIdle /\ ClientIdle

NextCounter == CounterLock \/ CounterRead \/ CounterAdd \/ CounterReturn

SpecCounter == InitCounter /\ [][NextCounter]_vars

(***************************************************************************)
(* Specifications                                                          *)
(***************************************************************************)
InitBw == BwStart /\ MkIdle /\ ClientIdle /\ SimIdle

NextBw == BwRecompute \/ BwPanic

SpecBw == InitBw /\ [][NextBw]_vars

InitMarkov == MkStart /\ BwIdle /\ ClientIdle /\ SimIdle

NextMarkov == GetNext \/ FlowNextStream \/ FlowNextStop \/ FlowNextPanic

SpecMarkov == InitMarkov /\ [][NextMarkov]_vars

\* The caller keeps calling (weak fairness of every step), and a draw that
\* stops the chain (an F emission, or a delay that reaches not_after) is
\* eventually made when it is possible again and again (strong fairness):
\* with two states besides "start", whatever can lead to such a draw can
\* make it in one step.  Likewise a sampled delay is not 0 for ever.
SpecMarkovFair ==
    /\ SpecMarkov
    /\ WF_vars(NextMarkov)
    /\ SF_vars(GetNextStop)
    /\ SF_vars(GetNextDelayed)

InitClient == ClientStart /\ BwIdle /\ MkIdle /\ SimIdle

NextClient == ClientEpoch \/ ClientRequest

SpecClient == InitClient /\ [][NextClient]_vars

InitGuard == GuardStart /\ BwIdle /\ MkIdle /\ SimIdle

NextGuard == GuardTimedUpdates \/ GuardGetGuard \/ GuardMarkConfirmed

SpecGuard == InitGuard /\ [][NextGuard]_vars

InitSmall == SmallStart /\ BwIdle /\ MkIdle /\ SimIdle

NextSmall == SmallTimedUpdates \/ SmallGetGuard \/ SmallMarkConfirmed

SpecSmall == InitSmall /\ [][NextSmall]_vars

InitWide == WideStart /\ BwIdle /\ MkIdle /\ SimIdle

NextWide == WideTimedUpdates \/ WideGetGuard

SpecWide == InitWide /\ [][NextWide]_vars

InitUser == UserStart /\ BwIdle /\ ClientIdle /\ SimIdle

NextUser == UserNewFlow \/ UserFlowEnd \/ UserRequest

SpecUser == InitUser /\ [][NextUser]_vars

\* the two users of a Markov chain: a flow of streams and a packet stream
InitModels == (MkStart \/ PacketStart) /\ BwIdle /\ ClientIdle /\ SimIdle

NextModels == NextMarkov \/ PacketGenerate

SpecModels == InitModels /\ [][NextModels]_vars

\* the caller goes on calling next as long as it returns a request
SpecUserFair == SpecUser /\ WF_vars(NextUser)

InitTrace == TraceStart /\ BwIdle /\ MkIdle /\ ClientIdle

NextTrace == TraceNotify \/ TraceWorkerRecv

SpecTrace == InitTrace /\ [][NextTrace]_vars

InitSim == SimStart /\ BwIdle /\ MkIdle /\ ClientIdle

NextSim ==
    \/ SimDispatch
    \/ SimRequest
    \/ SimTaskEnd
    \/ SimNextEpoch
    \/ SimFinish
    \/ TraceWorkerRecv
    \/ TraceWorkerStop
    \/ SimRerun

SpecSim == InitSim /\ [][NextSim]_vars

InitNeeds == NeedsStart /\ BwIdle /\ MkIdle /\ SimIdle

NextNeeds == NeedsAdd \/ NeedsRemoveExpired

SpecNeeds == InitNeeds /\ [][NextNeeds]_vars

InitStream == StreamStart /\ BwIdle /\ MkIdle /\ SimIdle

NextStream == StreamEpoch \/ StreamRequest

SpecStream == InitStream /\ [][NextStream]_vars

InitAdv == AdvStart /\ MkIdle /\ ClientIdle /\ SimIdle

NextAdv == AdvModifyConsensus

SpecAdv == InitAdv /\ [][NextAdv]_vars

(***************************************************************************)
(* C1  Determinism: for a fixed seed and fixed inputs, the requests and    *)
(* circuits of every client and the rows of the trace are the same in      *)
(* every run, whatever the number of worker threads and however the        *)
(* clients are scheduled onto them: when the program has run twice to its  *)
(* end, the second run has produced what the first produced.               *)
(***************************************************************************)
C1_Determinism ==
    (spc = "done" /\ prev_run # None) => Outcome = prev_run[1]

(***************************************************************************)
(* C2  Trace ordering: the rows of the output trace are in non-decreasing  *)
(* order of source_timestamp, for any number of clients and any            *)
(* interleaving of the workers that hand chunks to the trace worker.       *)
(***************************************************************************)
C2_TraceOrdering ==
    \A i \in DOMAIN file : \A j \in DOMAIN file :
        i < j => instant(file[i].source_timestamp)
                     <= instant(file[j].source_timestamp)

(***************************************************************************)
(* C3  Every trace entry emitted for a circuit_used notification has as    *)
(* source id the id assigned to the fingerprint of the exit of the used    *)
(* circuit, and as destination id the id of the client that made the       *)
(* request.                                                                *)
(***************************************************************************)
C3_EntryIds ==
    notified # None =>
        \A i \in DOMAIN notified[1].entries :
            /\ notified[1].entries[i].source_id
                   = exit_ids.assigned_ids[notified[1].exit]
            /\ notified[1].entries[i].destination_id = notified[1].client

(***************************************************************************)
(* C4  A circuit_used notification with the response packet timestamps     *)
(* t1..tn emits exactly n trace entries, the i-th with source_timestamp =  *)
(* ti and destination_timestamp = ti + 210 ms exactly; a request with no   *)
(* response packets emits no entry.                                        *)
(***************************************************************************)
C4_EntriesOfNotification ==
    notified # None =>
        /\ Len(notified[1].entries) = Len(notified[1].timestamps)
        /\ \A i \in DOMAIN notified[1].entries :
             /\ instant(notified[1].entries[i].source_timestamp)
                    = notified[1].timestamps[i]
             /\ instant(notified[1].entries[i].destination_timestamp)
                    = notified[1].timestamps[i] + 210

\* a notification with two packets, the second less than 210 ms before
\* midnight, after an earlier notification without packets
C4_Witness ==
    /\ spc = "trace"
    /\ notified # None
    /\ Len(notified[1].entries) = 2
    /\ notified[1].entries[2].destination_timestamp.date
           > notified[1].entries[2].source_timestamp.date
    /\ NEXT_SENDER > NEXT_MESSAGE

(***************************************************************************)
(* C5  Circuit freshness: once timed maintenance has run at time now, and  *)
(* also after the request at now has been handled, no dirty circuit has    *)
(* dirty_time + 10 min < now, no clean circuit has creation time + 60 min  *)
(* < now, and no circuit that the maintenance retained has a guard, middle *)
(* or exit that is missing from the consensus or lacks Running or Valid.   *)
(***************************************************************************)
C5_CircuitFreshness ==
    now # None =>
        \A i \in DOMAIN circuits :
            /\ circuits[i].dirty_time # None =>
                 ~(circuits[i].dirty_time[1] + Minutes(10) < now[1])
            /\ circuits[i].dirty_time = None =>
                 ~(circuits[i].time + Minutes(60) < now[1])
            /\ i <= maint.retained =>
                 \A relay \in {circuits[i].guard, circuits[i].middle,
                               circuits[i].exit} :
                     consensus[relay] = "ok"

\* a maintenance closed a circuit because a relay of it is not Running, and
\* retained other circuits
C5_Witness ==
    /\ cpc = "run"
    /\ "Down" \in maint.closed
    /\ maint.retained >= 1
    /\ Len(circuits) >= maint.retained

(***************************************************************************)
(* C6  Need cover accounting: after any sequence of maintenance and        *)
(* request handling, the covered count of every need of the container is   *)
(* the number of live handles that point at it, is not negative and is at  *)
(* most the number of clean circuits that hold a handle to it; the handle  *)
(* of a removed need counts for no need, not even for a later need of the  *)
(* same port.                                                              *)
(***************************************************************************)
C6_NeedCoverAccounting ==
    \A p \in Ports :
        port_needs[p] # None =>
            LET need    == port_needs[p][1]
                handles == {h \in {<<i, k>> : i \in DOMAIN circuits,
                                              k \in 1..PORT_NEED_COVER_NUM * 2} :
                              /\ h[2] <= Len(circuits[h[1]].covered_needs)
                              /\ circuits[h[1]].covered_needs[h[2]].port = p
                              /\ circuits[h[1]].covered_needs[h[2]].arc
                                     = need.arc}
                holders == {i \in DOMAIN circuits :
                              /\ circuits[i].dirty_time = None
                              /\ \E h \in handles : h[1] = i}
            IN  /\ need.covered = Cardinality(handles)
                /\ need.covered >= 0
                /\ need.covered <= Cardinality(holders)

\* a circuit holds the handle of a removed need of a port together with a
\* handle of the need made later for that port
C6_Witness ==
    \E p \in Ports : \E i \in DOMAIN circuits :
        /\ port_needs[p] # None
        /\ port_needs[p][1].covered >= 1
        /\ \E k \in DOMAIN circuits[i].covered_needs :
             /\ circuits[i].covered_needs[k].port = p
             /\ circuits[i].covered_needs[k].arc # port_needs[p][1].arc
        /\ \E k \in DOMAIN circuits[i].covered_needs :
             circuits[i].covered_needs[k] = NeedHandle(port_needs[p][1])

(***************************************************************************)
(* C7  Guard invariants: in every state reached through timed_updates,     *)
(* get_guard_for_circuit and mark_as_confirmed, primary_guards has at most *)
(* N_PRIMARY_GUARDS (3) entries, and every primary guard is in             *)
(* sampled_guards, is in confirmed_guards and is listed.                   *)
(***************************************************************************)
C7_GuardInvariants ==
    /\ Len(guards.primary_guards) <= 3
    /\ \A i \in DOMAIN guards.primary_guards :
         /\ guards.primary_guards[i] \in Fingerprints(guards.confirmed_guards)
         /\ \E j \in DOMAIN guards.sampled_guards :
              /\ guards.sampled_guards[j].fingerprint
                     = guards.primary_guards[i]
              /\ guards.sampled_guards[j].first_unlisted_at = None

\* three primary guards and a fourth guard that is sampled, listed and
\* confirmed too
C7_Witness ==
    /\ Len(guards.primary_guards) = 3
    /\ Len(guards.confirmed_guards) = 4
    /\ \A j \in DOMAIN guards.sampled_guards :
         /\ guards.sampled_guards[j].first_unlisted_at = None
         /\ guards.sampled_guards[j].fingerprint
                \in Fingerprints(guards.confirmed_guards)

(***************************************************************************)
(* C8  A guard that timed_updates removed from the sampled guards is not   *)
(* in sampled_guards, confirmed_guards or primary_guards again unless      *)
(* usable_guards samples it again, also when a circuit built through it    *)
(* is still alive and serves a later request.                              *)
(***************************************************************************)
C8_RemovedGuardsStayRemoved ==
    \A g \in removed_guards :
        /\ g \notin Fingerprints(guards.sampled_guards)
        /\ g \notin Fingerprints(guards.confirmed_guards)
        /\ \A i \in DOMAIN guards.primary_guards :
             guards.primary_guards[i] # g

(***************************************************************************)
(* C9  Bandwidth-weight law: whenever recompute_bw_weights completes, in   *)
(* every case, Wed+Wmd+Wgd, Wmg+Wgg and Wme+Wee are each within 10 of      *)
(* W = 10000 and each of the seven weights lies in [0, W].                 *)
(***************************************************************************)
C9_BwWeightLaw ==
    bwpc = "done" =>
        /\ weights.Wed + weights.Wmd + weights.Wgd - weightscale \in -10..10
        /\ weights.Wmg + weights.Wgg - weightscale \in -10..10
        /\ weights.Wme + weights.Wee - weightscale \in -10..10
        /\ \A k \in {"Wgg", "Wgd", "Wmg", "Wme", "Wmd", "Wee", "Wed"} :
               weights[k] \in 0..weightscale

\* a completed run of case 2b2, whose first formula (2b1) was rejected
C9_Witness == bwpc = "done" /\ weights.cs = "2b2" /\ weights.Wmd > 0

(***************************************************************************)
(* C10  Markov termination: for any model in which an F emission is        *)
(* reachable from the start state, a chain driven by repeated get_next     *)
(* eventually becomes stopped; once stopped, every further get_next        *)
(* returns StopGenerating and changes neither the state nor the time.      *)
(***************************************************************************)
C10_StoppedIsFinal ==
    [][(chain.stopped /\ mpc = "call" /\ mpc' = "ret")
          => (chain' = chain /\ mout' = <<chain.current_time, "F">>)]_vars

\* The claim is stated for the models on which the clamp rule it rests on
\* can bound the run: the caller keeps calling (the model emits only the
\* symbols the caller accepts, it panics on any other) and every emission
\* but F samples its delay, so that time is meant to pass on every cycle.
C10_EventuallyStopped ==
    (/\ FReachable(mmodel)
     /\ StreamSymbolsOnly(mmodel)
     /\ DelaysSampled(mmodel)) => <>(chain.stopped)

C10_MarkovTermination == C10_EventuallyStopped /\ C10_StoppedIsFinal

(***************************************************************************)
(* C11  Port-need idempotence: whatever add_need calls are made on a port, *)
(* the fast and stable flags of its need stay those of the call that       *)
(* created the need for as long as that need stays in the container, and   *)
(* the container holds at most one need per port, stored under its port.   *)
(***************************************************************************)
C11_NeedFlagsKept ==
    /\ [][\A p \in Ports :
            (/\ port_needs[p] # None
             /\ port_needs'[p] # None
             /\ port_needs'[p][1].arc = port_needs[p][1].arc)
            => /\ port_needs'[p][1].fast = port_needs[p][1].fast
               /\ port_needs'[p][1].stable = port_needs[p][1].stable]_vars
    /\ [](\A p \in Ports :
            port_needs[p] # None => port_needs[p][1].port = p)

\* a need that a later add_need refreshed after it had expired, next to a
\* need of the other port with other flags
C11_Witness ==
    /\ cpc = "needs"
    /\ port_needs[22] # None
    /\ port_needs[22][1].expires > port_needs[22][1].arc + PORT_NEED_LIFETIME
    /\ port_needs[80] # None
    /\ port_needs[80][1].fast # port_needs[22][1].fast
    /\ port_needs[80][1].stable # port_needs[22][1].stable

(***************************************************************************)
(* C12  handle_new_epoch dispatches every request of the user model whose  *)
(* time lies in the epoch, in timestamp order, and leaves the later ones   *)
(* for a later epoch: the requests a client has dispatched are in          *)
(* ascending order of time, and once a client has finished an epoch the    *)
(* next request of its user model is not before the end of that epoch, so  *)
(* that no request of an epoch that was handled is left undispatched.      *)
(***************************************************************************)
C12_EpochDispatch ==
    spc = "run" =>
        \A c \in SimClientIds :
            /\ \A i, j \in 1..Len(sclients[c].requests) :
                   i < j => sclients[c].requests[i].request.time
                                < sclients[c].requests[j].request.time
            /\ sclients[c].task = "done" =>
                   /\ sclients[c].peeked # None
                   /\ sclients[c].peeked[1].time >= SimEpochs[epoch].end

C14_LongLivedStable ==
    (/\ cpc = "stream"
     /\ used # None
     /\ used[1].port \in LONG_LIVED_PORTS)
    => /\ used[1].circuit.is_stable
       /\ ~used[1].circuit.is_internal
       /\ allows_port(used[1].circuit.exit, used[1].port)
       /\ used[1].kind = "new" => /\ used[1].circuit.is_stable
                                  /\ used[1].circuit.is_fast
                                  /\ used[1].circuit.dirty_time
                                         = Some(used[1].time)

\* a request to port 22 got a new circuit although the client had a clean
\* circuit, which is not stable
C14_Witness ==
    /\ cpc = "stream"
    /\ used # None
    /\ used[1].port = 22
    /\ used[1].kind = "new"
    /\ \E i \in DOMAIN circuits :
           /\ circuits[i].dirty_time = None
           /\ ~circuits[i].is_stable
           /\ allows_port(circuits[i].exit, 22)

(***************************************************************************)
(* C15  Guard promotion: after every step that recomputes the primary      *)
(* guards (timed_updates, and mark_as_confirmed of a guard that was not    *)
(* confirmed), primary_guards is the sequence of the first min(3, k)       *)
(* confirmed guards that are sampled and listed, in the order of           *)
(* confirmed_guards, which is the order in which the guards were           *)
(* confirmed; k is the number of such guards.  With three confirmed        *)
(* guards that are all listed, these three are the primary guards.         *)
(***************************************************************************)
C15_GuardPromotion ==
    [][(\/ guards'.confirmed_guards # guards.confirmed_guards
        \/ guards'.primary_guards # guards.primary_guards
        \/ now' # now
        \/ consensus' # consensus)
       => LET conf == guards'.confirmed_guards
              prim == guards'.primary_guards
              K == {i \in DOMAIN conf :
                      \E j \in DOMAIN guards'.sampled_guards :
                          /\ guards'.sampled_guards[j].fingerprint
                                 = conf[i].fingerprint
                          /\ guards'.sampled_guards[j].first_unlisted_at
                                 = None}
          IN  /\ Len(prim) = Min(3, Cardinality(K))
              /\ \A n \in DOMAIN prim :
                     \E i \in K :
                         /\ conf[i].fingerprint = prim[n]
                         /\ Cardinality({k \in K : k < i}) = n - 1
              /\ (Len(conf) = 3 /\ Cardinality(K) = 3)
                     => prim = [n \in 1..3 |-> conf[n].fingerprint]]_vars

\* three guards are confirmed and listed, the last of them confirmed last,
\* and they are the primary guards
C15_Witness ==
    /\ cpc = "guards"
    /\ Len(guards.confirmed_guards) = 3
    /\ Len(guards.primary_guards) = 3
    /\ \A i \in 1..3 :
           guards.primary_guards[i] = guards.confirmed_guards[i].fingerprint
    /\ guards.confirmed_guards[1].fingerprint # "g1"

\* the step of modify_consensus appends the extra relays and their
\* descriptors after the existing ones, which stay as they are: n relays
\* with the flag Guard and m with the flag Exit
AdvAppended ==
    LET extra == adv.extra_relays
        n == Cardinality({i \in DOMAIN extra : "Guard" \in extra[i].relay.flags})
        m == Cardinality({i \in DOMAIN extra : "Exit" \in extra[i].relay.flags})
    IN  /\ Len(extra) = n + m
        /\ Len(adv'.relays) = Len(adv.relays) + n + m
        /\ Len(adv'.descriptors) = Len(adv.descriptors) + n + m
        /\ SubSeq(adv'.relays, 1, Len(adv.relays)) = adv.relays
        /\ SubSeq(adv'.descriptors, 1, Len(adv.descriptors)) = adv.descriptors
        /\ \A i \in DOMAIN extra :
               /\ adv'.relays[Len(adv.relays) + i] = extra[i].relay
               /\ adv'.descriptors[Len(adv.descriptors) + i]
                      = extra[i].descriptor

\* the 19 canonical keys of the weights of a consensus
CanonicalKeys ==
    {"Wbd", "Wbe", "Wbg", "Wbm", "Wdb", "Web", "Wed", "Wee", "Weg", "Wem",
     "Wgb", "Wgd", "Wgg", "Wgm", "Wmb", "Wmd", "Wme", "Wmg", "Wmm"}

CounterSlots ==
    UNION {{<<"returned", k, i>> : i \in DOMAIN counter.returned[k].res} :
           k \in DOMAIN counter.returned}
    \cup UNION {{<<"call", t, i>> :
                    i \in DOMAIN call_result(counter.calls[t][1])} :
                t \in {u \in CallsUnderWay : counter.calls[u][1].pc = "added"}}

CounterValueAt(s) ==
    IF s[1] = "returned"
    THEN counter.returned[s[2]].res[s[3]]
    ELSE call_result(counter.calls[s[2]][1])[s[3]]

C17_UniqueDense ==
    /\ \A s1, s2 \in CounterSlots :
         s1 # s2 => CounterValueAt(s1) # CounterValueAt(s2)
    /\ \A k \in DOMAIN counter.returned :
         LET r == counter.returned[k] IN
         /\ Len(r.res) = r.n
         /\ \A i \in 1..(r.n - 1) : r.res[i + 1] = r.res[i] + 1
    /\ {CounterValueAt(s) : s \in CounterSlots}
         = 0..(Cardinality(CounterSlots) - 1)

\* three calls of two threads returned, a get_next_n(2) among them, and a call
\* that took its values later returned earlier
C17_Witness ==
    /\ Len(counter.returned) = 3
    /\ \E j, k \in DOMAIN counter.returned :
         /\ j < k
         /\ counter.returned[j].thread # counter.returned[k].thread
         /\ counter.returned[k].fn = "get_next_n"
         /\ counter.returned[k].n = 2
         /\ counter.returned[j].res # <<>>
         /\ counter.returned[k].res[1] < counter.returned[j].res[1]

(***************************************************************************)
(* C18  When the circuit generator cannot build a circuit, in the timed    *)
(* maintenance or in handle_request, the step of the client ends in the    *)
(* error that ends the run: no request is reported as served, the          *)
(* circuits are the retained ones followed by the clean circuits the       *)
(* maintenance built to cover needs before the failure (none for the       *)
(* failed build), and the need the maintenance was covering is as it was   *)
(* before the attempt, its cover count included.                           *)
(***************************************************************************)
C18_BuildFailure ==
    [][(cpc # "error" /\ cpc' = "error") =>
          /\ used' = None
          /\ Len(circuits') >= maint'.retained
          /\ \A i \in DOMAIN circuits' :
               IF i <= maint'.retained
               THEN \E j \in DOMAIN circuits : circuits'[i] = circuits[j]
               ELSE /\ circuits'[i].dirty_time = None
                    /\ circuits'[i].covered_needs # <<>>
          /\ maint'.failed # None =>
               LET need == maint'.failed[1] IN
               /\ port_needs'[need.port] = Some(need)
               /\ needs_cover(need)
               /\ Cardinality({i \in DOMAIN circuits' :
                     \E k \in DOMAIN circuits'[i].covered_needs :
                        circuits'[i].covered_needs[k] = NeedHandle(need)})
                    = need.covered]_vars

\* the maintenance found the circuits of a need down and could not build a
\* circuit to cover the need again
C18_Witness ==
    /\ cpc = "error"
    /\ maint.failed # None
    /\ "Down" \in maint.closed
    /\ used = None

(***************************************************************************)
(* C19  Epoch barrier: a client has entered handle_new_epoch for an epoch  *)
(* only when every client has returned from it for the epoch before; the   *)
(* epochs a client has handled are 1, 2, ... in this order, each once, up  *)
(* to the epoch of the simulation, and all of them when the loop is over;  *)
(* no client is handled by two threads at once, and a step of the          *)
(* parallel phase changes only the state of a client that a thread is      *)
(* handling.                                                               *)
(***************************************************************************)
EpochsUpTo(n) == [i \in 1..n |-> i]

SimClientState(cl) == [cl EXCEPT !.task = "any"]

C19_Barrier ==
    \A c \in SimClientIds :
       /\ \A d \in SimClientIds :
             Len(sclients[c].started) <= Len(sclients[d].finished) + 1
       /\ sclients[c].started
            = EpochsUpTo(IF sclients[c].task = "todo" THEN epoch - 1 ELSE epoch)
       /\ sclients[c].finished
            = EpochsUpTo(IF sclients[c].task = "done" THEN epoch ELSE epoch - 1)
       /\ spc \in {"stopping", "done"} =>
             sclients[c].finished = EpochsUpTo(Len(SimEpochs))
       /\ \A w1, w2 \in SimWorkers :
             running[w1] = Some(c) /\ running[w2] = Some(c) => w1 = w2

C19_OwnStateOnly ==
    [][spc = "run" =>
         \A c \in SimClientIds :
            SimClientState(sclients'[c]) # SimClientState(sclients[c]) =>
               \E w \in SimWorkers :
                  running[w] = Some(c) \/ running'[w] = Some(c)]_vars

C19_EpochBarrier == []C19_Barrier /\ C19_OwnStateOnly

\* in the second epoch one client has been handled and a thread is handling
\* the other, which has served a request in this epoch
C19_Witness ==
    /\ epoch = 2
    /\ sclients[0].task = "done"
    /\ sclients[1].task = "run"
    /\ sclients[1].requests # <<>>
    /\ sclients[1].requests[Len(sclients[1].requests)].request.time
         >= SimEpochs[2].start

(***************************************************************************)
(* C20  handle_request, on the circuits the maintenance of its turn left,  *)
(* serves the request with the first circuit of the list that is dirty,    *)
(* with req.time < dirty_time + 10 min, and supports the stream; if there  *)
(* is none, with the first clean circuit that supports the stream, which   *)
(* becomes dirty at req.time; if there is none either, with a new circuit  *)
(* that is appended to the list, dirty at req.time.                        *)
(***************************************************************************)
ServedAs(circs, u) ==
    LET dirty == {i \in DOMAIN circs :
                     /\ circs[i].dirty_time # None
                     /\ u.time < circs[i].dirty_time[1] + Minutes(10)
                     /\ supports_stream(circs[i], u.port)}
        clean == {i \in DOMAIN circs :
                     /\ circs[i].dirty_time = None
                     /\ supports_stream(circs[i], u.port)}
        same(a, b) == [a EXCEPT !.covered_needs = <<>>]
                         = [b EXCEPT !.covered_needs = <<>>]
    IN  /\ u.circuit = circuits'[u.index]
        /\ IF dirty # {}
           THEN /\ u.index = FirstOf(dirty)
                /\ Len(circuits') = Len(circs)
                /\ circuits'[u.index] = circs[u.index]
           ELSE IF clean # {}
           THEN /\ u.index = FirstOf(clean)
                /\ Len(circuits') = Len(circs)
                /\ circuits'[u.index] =
                       [circs[u.index] EXCEPT !.dirty_time = Some(u.time),
                                              !.covered_needs = <<>>]
           ELSE /\ u.index = Len(circs) + 1
                /\ Len(circuits') = Len(circs) + 1
                /\ circuits'[u.index].dirty_time = Some(u.time)
                /\ circuits'[u.index].time = u.time
                /\ allows_port(circuits'[u.index].exit, u.port)
        /\ \A i \in DOMAIN circs : i # u.index => same(circuits'[i], circs[i])

C20_CircuitChoice ==
    [][used' # None =>
         \E mt \in timed_client_updates(Manager(circuits, port_needs, guards),
                                        now'[1], consensus, FALSE) :
            /\ ~mt.err
            /\ mt.maint = maint'
            /\ used'[1].time = now'[1]
            /\ ServedAs(mt.m.circuits, used'[1])]_vars

\* the request was served by a dirty circuit while a clean circuit before
\* it in the list supports the stream as well
C20_Witness ==
    /\ used # None
    /\ used[1].kind = "dirty"
    /\ \E j \in 1..(used[1].index - 1) :
          /\ circuits[j].dirty_time = None
          /\ supports_stream(circuits[j], used[1].port)

(***************************************************************************)
(* C21  No dirty circuit holds a NeedHandle.  In a turn that serves a      *)
(* request with a circuit that the maintenance of the turn left clean,     *)
(* the circuit becomes dirty at req.time with covered_needs empty and the  *)
(* cover count of each need it covered drops by one (before the need of    *)
(* the port of the request is covered again); a circuit built for the      *)
(* request has no handle; and a circuit that gains a handle is clean.      *)
(***************************************************************************)
C21_DirtyWithoutHandle ==
    \A i \in DOMAIN circuits :
        circuits[i].dirty_time # None => circuits[i].covered_needs = <<>>

HandleGained(circs, p) ==
    IF \E j \in DOMAIN circs :
          /\ Len(circuits'[j].covered_needs) > Len(circs[j].covered_needs)
          /\ circuits'[j].covered_needs[Len(circuits'[j].covered_needs)].port
                = p
    THEN 1 ELSE 0

HandlesOnClean(circs, needs, u) ==
    /\ u.index \in DOMAIN circs /\ circs[u.index].dirty_time = None =>
          /\ circuits'[u.index].dirty_time = Some(u.time)
          /\ circuits'[u.index].covered_needs = <<>>
          /\ \A p \in Ports :
                (/\ needs[p] # None
                 /\ \E k \in DOMAIN circs[u.index].covered_needs :
                       circs[u.index].covered_needs[k]
                          = NeedHandle(needs[p][1])) =>
                   /\ port_needs'[p] # None
                   /\ port_needs'[p][1].covered =
                         needs[p][1].covered - 1 + HandleGained(circs, p)
    /\ u.index \notin DOMAIN circs =>
          circuits'[u.index].covered_needs = <<>>
    /\ \A j \in DOMAIN circs :
          Len(circuits'[j].covered_needs) > Len(circs[j].covered_needs) =>
             /\ circuits'[j].dirty_time = None
             /\ circs[j].dirty_time = None
             /\ j # u.index

C21_HandlesOnCleanOnly ==
    [][used' # None =>
         \E mt \in timed_client_updates(Manager(circuits, port_needs, guards),
                                        now'[1], consensus, FALSE) :
            /\ ~mt.err
            /\ mt.maint = maint'
            /\ HandlesOnClean(mt.m.circuits, mt.m.port_needs, used'[1])]_vars

C21_NoDirtyHandle == []C21_DirtyWithoutHandle /\ C21_HandlesOnCleanOnly

\* a clean circuit served the request and a need it covered is left with
\* one cover, while another clean circuit holds handles
C21_Witness ==
    /\ used # None
    /\ used[1].kind = "clean"
    /\ circuits[used[1].index].covered_needs = <<>>
    /\ \E p \in Ports : port_needs[p] # None /\ port_needs[p][1].covered = 1
    /\ \E j \in DOMAIN circuits : Len(circuits[j].covered_needs) >= 1

(***************************************************************************)
(* C22  In a turn that serves a request to the port p: when the need of p  *)
(* has fewer than PORT_NEED_COVER_NUM covers after the circuit was chosen, *)
(* one handle of it is attached, to the first circuit of the list that is  *)
(* clean, holds no handle of the need, has the flags the need asks for     *)
(* and an exit that allows p, and the count of the need goes up by one;    *)
(* when there is no such circuit, or the need is covered, no circuit is    *)
(* changed and the count is as before.  (Compared with the circuits and    *)
(* needs the maintenance of the turn left.)                                *)
(***************************************************************************)
CoverAfterRequest(circs, needs, u) ==
    LET p      == u.port
        need   == port_needs'[p][1]
        h      == NeedHandle(need)
        chosen_held ==
            /\ u.index \in DOMAIN circs
            /\ circs[u.index].dirty_time = None
            /\ needs[p] # None
            /\ \E k \in DOMAIN circs[u.index].covered_needs :
                  circs[u.index].covered_needs[k] = NeedHandle(needs[p][1])
        before == IF needs[p] = None THEN 0
                  ELSE needs[p][1].covered - (IF chosen_held THEN 1 ELSE 0)
        cands  == {j \in DOMAIN circs :
                     /\ j # u.index
                     /\ circuits'[j].dirty_time = None
                     /\ \A k \in DOMAIN circs[j].covered_needs :
                           circs[j].covered_needs[k] # h
                     /\ need.fast => circs[j].is_fast
                     /\ need.stable => circs[j].is_stable
                     /\ allows_port(circs[j].exit, p)}
        first  == FirstOf(cands)
    IN  /\ port_needs'[p] # None
        /\ needs[p] # None =>
              /\ need.arc = needs[p][1].arc
              /\ need.fast = needs[p][1].fast
              /\ need.stable = needs[p][1].stable
        /\ IF before < PORT_NEED_COVER_NUM /\ cands # {}
           THEN /\ need.covered = before + 1
                /\ circuits'[first] =
                      [circs[first] EXCEPT !.covered_needs = Append(@, h)]
                /\ \A j \in DOMAIN circs \ {first, u.index} :
                      circuits'[j] = circs[j]
           ELSE /\ need.covered = before
                /\ \A j \in DOMAIN circs \ {u.index} : circuits'[j] = circs[j]

C22_CoverAfterRequest ==
    [][used' # None =>
         \E mt \in timed_client_updates(Manager(circuits, port_needs, guards),
                                        now'[1], consensus, FALSE) :
            /\ ~mt.err
            /\ mt.maint = maint'
            /\ Len(circuits') >= Len(mt.m.circuits)
            /\ CoverAfterRequest(mt.m.circuits, mt.m.port_needs,
                                 used'[1])]_vars

\* the need of the port was made in this turn and its handle went to a
\* circuit behind a clean circuit that cannot cover the need
C22_Witness ==
    /\ used # None
    /\ port_needs[used[1].port] # None
    /\ port_needs[used[1].port][1].arc = used[1].time
    /\ \E j \in DOMAIN circuits :
          /\ circuits[j].dirty_time = None
          /\ Len(circuits[j].covered_needs) >= 2
          /\ circuits[j].covered_needs[Len(circuits[j].covered_needs)]
                = NeedHandle(port_needs[used[1].port][1])
          /\ \E i \in 1..(j - 1) :
                /\ circuits[i].dirty_time = None
                /\ ~allows_port(circuits[i].exit, used[1].port)

(***************************************************************************)
(* C23  The cover loop of the maintenance ends: it builds as many circuits *)
(* as covers are missing after the sweeps.  When the maintenance at the    *)
(* start of an epoch returns without error, every need of the container    *)
(* has at least PORT_NEED_COVER_NUM covers, and every circuit the loop     *)
(* built is clean, was created at now and holds one handle, of a living    *)
(* need whose port its exit allows and whose flags it has.                 *)
(***************************************************************************)
RECURSIVE MissingCovers(_, _)
MissingCovers(needs, i) ==
    IF i > Len(NeedsIterOrder) THEN 0
    ELSE LET need == needs[NeedsIterOrder[i]]
         IN  (IF need = None THEN 0
              ELSE Max(0, PORT_NEED_COVER_NUM - need[1].covered))
             + MissingCovers(needs, i + 1)

C23_NeedsCovered ==
    [][(used' = None /\ cpc' # "error") =>
         LET swept == SweepCircuits(circuits, port_needs, now'[1], consensus',
                                    now = None)
         IN  /\ \A p \in Ports :
                  port_needs'[p] # None =>
                     port_needs'[p][1].covered >= PORT_NEED_COVER_NUM
             /\ maint'.retained = Len(swept.circuits)
             /\ Len(circuits') =
                   maint'.retained + MissingCovers(swept.port_needs, 1)
             /\ \A i \in (maint'.retained + 1)..Len(circuits') :
                  LET circ == circuits'[i] IN
                  /\ circ.dirty_time = None
                  /\ circ.time = now'[1]
                  /\ Len(circ.covered_needs) = 1
                  /\ LET h == circ.covered_needs[1] IN
                     /\ port_needs'[h.port] # None
                     /\ h = NeedHandle(port_needs'[h.port][1])
                     /\ swept.port_needs[h.port] # None
                     /\ swept.port_needs[h.port][1].covered
                           < PORT_NEED_COVER_NUM
                     /\ allows_port(circ.exit, h.port)
                     /\ circ.is_stable = port_needs'[h.port][1].stable
                     /\ circ.is_fast = port_needs'[h.port][1].fast]_vars

\* the maintenance of an epoch retained a circuit and built circuits to
\* cover the needs of two ports
C23_Witness ==
    /\ used = None
    /\ cpc # "error"
    /\ maint.retained >= 1
    /\ \E i, j \in (maint.retained + 1)..Len(circuits) :
          circuits[i].covered_needs[1].port # circuits[j].covered_needs[1].port

(***************************************************************************)
(* C24  get_guard_for_circuit returns a guard for every consensus and      *)
(* every state of the guards (it never panics), and the guard it returns   *)
(* is a listed guard of sampled_guards: primary_guards[0] when there is a  *)
(* primary guard, or else the first listed guard of sampled_guards.        *)
(***************************************************************************)
C24_GuardReturned ==
    [][cpc = "small" /\ now # None /\ (used' # used \/ cpc' # cpc) =>
          /\ cpc' # "panic"
          /\ used' # None
          /\ LET listed == SelectSeq(guards'.sampled_guards, is_listed)
             IN  /\ listed # <<>>
                 /\ used'[1].guard \in Fingerprints(listed)
                 /\ used'[1].guard =
                       IF guards.primary_guards # <<>>
                       THEN guards.primary_guards[1]
                       ELSE listed[1].fingerprint]_vars

(***************************************************************************)
(* C25  A call of get_next on a chain that is not stopped, with d the      *)
(* delay it samples, returns the time before the step and the emitted      *)
(* symbol; if d < not_after - current_time it advances current_time by d   *)
(* and the chain is stopped exactly when the symbol is F; if               *)
(* d >= not_after - current_time it sets current_time to not_after and     *)
(* stops the chain.                                                        *)
(***************************************************************************)
C25_StepAdvances ==
    [][\A next_state \in MStates, action \in UNION MActionSets,
          delay \in 0..MaxDelay :
          (~chain.stopped /\ GetNextWith(next_state, action, delay)) =>
             /\ mout' = <<chain.current_time, action.emission>>
             /\ chain'.current_state = next_state
             /\ IF delay < not_after - chain.current_time
                THEN /\ chain'.current_time = chain.current_time + delay
                     /\ chain'.stopped = (action.emission = "F")
                ELSE /\ chain'.current_time = not_after
                     /\ chain'.stopped]_vars

(***************************************************************************)
(* C26  Of two consecutive requests of one user model the second is not    *)
(* earlier than the first, nor earlier than the last response packet of    *)
(* the first when it has any; the packet timestamps of a request do not    *)
(* decrease and none is earlier than the time of the request.              *)
(***************************************************************************)
PacketsOrdered(req) ==
    LET ts == req.packet_timestamps IN
    /\ \A i \in 1..Len(ts) : ts[i] >= req.time
    /\ \A i \in 1..Len(ts) - 1 : ts[i] <= ts[i + 1]

C26_RequestsOrdered ==
    /\ puser.last # None => PacketsOrdered(puser.last[1])
    /\ (puser.prev # None /\ puser.last # None) =>
          LET r1 == puser.prev[1]
              r2 == puser.last[1]
              ts == r1.packet_timestamps
          IN  /\ r2.time >= r1.time
              /\ ts # <<>> => r2.time >= ts[Len(ts)]

C26_Witness ==
    /\ mpc = "user"
    /\ puser.prev # None
    /\ puser.last # None
    /\ Len(puser.prev[1].packet_timestamps) = 2
    /\ puser.last[1].packet_timestamps # <<>>
    /\ puser.last[1].time > puser.prev[1].time

(***************************************************************************)
(* C27  No request of the user model has a time after not_after and no     *)
(* response packet of it has a timestamp after not_after.                  *)
(***************************************************************************)
C27_NothingAfterNotAfter ==
    (mpc = "user" /\ puser.last # None) =>
        LET req == puser.last[1] IN
        /\ req.time <= not_after
        /\ \A i \in 1..Len(req.packet_timestamps) :
              req.packet_timestamps[i] <= not_after

(***************************************************************************)
(* C28  Once a chain of the user model has been clamped to not_after, the  *)
(* iterator ends: from some call on, next yields no further request.  A    *)
(* clamped user model stays clamped, so this says that from some point on  *)
(* no call of next on a clamped user model yields a request.               *)
(***************************************************************************)
C28_IteratorEnds ==
    <>[][(mpc = "user" /\ puser.clamped) => ~UserRequest]_vars

(***************************************************************************)
(* C29  timed_updates(now) removes a sampled guard exactly if, after the   *)
(* listing update of the call, it is unlisted for at least 20 days, or it  *)
(* was added at least 120 days ago and is unconfirmed or was confirmed at  *)
(* least 60 days ago; the removed guards are also gone from                *)
(* confirmed_guards and primary_guards, and no other guard leaves          *)
(* sampled_guards or confirmed_guards.                                     *)
(***************************************************************************)
Range(seq) == {seq[i] : i \in DOMAIN seq}

ToBeRemoved(guard, confirmed_guards, t) ==
    LET confirmed == {c \in Range(confirmed_guards) :
                         c.fingerprint = guard.fingerprint}
    IN  \/ /\ guard.first_unlisted_at # None
           /\ t - guard.first_unlisted_at[1] >= Days(20)
        \/ /\ t - guard.added_on >= Days(120)
           /\ \A c \in confirmed : t - c.confirmed_on >= Days(60)

C29_GuardRemoval ==
    [][\A t \in SmallTimes, cons \in SmallConsensuses :
          (cpc = "small" /\ TimedUpdatesStep({t}, {cons})) =>
             LET updated == UpdateListing(guards.sampled_guards, cons,
                                [g \in GuardFps |-> random_past(t, Days(4))])
                 gone == {g.fingerprint : g \in
                             {u \in Range(updated) :
                                 ToBeRemoved(u, guards.confirmed_guards, t)}}
                 Stays(g) == g.fingerprint \notin gone
             IN  /\ Fingerprints(guards'.sampled_guards) =
                       Fingerprints(guards.sampled_guards) \ gone
                 /\ guards'.confirmed_guards =
                       SelectSeq(guards.confirmed_guards, Stays)
                 /\ gone \cap Range(guards'.primary_guards) = {}]_vars

C29_Witness ==
    /\ cpc = "small"
    /\ now # None
    /\ removed_guards # {}
    /\ \E g \in Range(guards.sampled_guards) :
          /\ now[1] - g.added_on >= GUARD_LIFETIME
          /\ g.fingerprint \in Fingerprints(guards.confirmed_guards)

(***************************************************************************)
(* C30  In timed_updates(now) a sampled guard whose relay is in the        *)
(* consensus and Running becomes listed; a listed guard whose relay is     *)
(* missing or not Running gets a first_unlisted_at in                      *)
(* [now - 4 days, now]; a guard that was unlisted and whose relay is       *)
(* still missing or not Running keeps its first_unlisted_at; added_on      *)
(* does not change.  (Seen on the guards the call leaves sampled.)         *)
(***************************************************************************)
C30_ListingUpdate ==
    [][\A t \in SmallTimes, cons \in SmallConsensuses :
          (cpc = "small" /\ TimedUpdatesStep({t}, {cons})) =>
             \A before \in Range(guards.sampled_guards) :
             \A after \in Range(guards'.sampled_guards) :
                after.fingerprint = before.fingerprint =>
                   /\ after.added_on = before.added_on
                   /\ IF cons[before.fingerprint] \in {"ok", "notvalid"}
                      THEN after.first_unlisted_at = None
                      ELSE IF before.first_unlisted_at = None
                      THEN /\ after.first_unlisted_at # None
                           /\ after.first_unlisted_at[1] >= t - Days(4)
                           /\ after.first_unlisted_at[1] <= t
                      ELSE after.first_unlisted_at =
                               before.first_unlisted_at]_vars

C30_Witness ==
    /\ cpc = "small"
    /\ now # None
    /\ \E g \in Range(guards.sampled_guards) :
          /\ g.first_unlisted_at # None
          /\ g.first_unlisted_at[1] < now[1] - Days(4)
          /\ consensus[g.fingerprint] \in {"missing", "notrunning"}
    /\ \E g \in Range(guards.sampled_guards) : g.first_unlisted_at = None

(***************************************************************************)
(* C32  The totals G, M, E and D start at 1 and each is raised by the      *)
(* bandwidth weights of the Running relays of its class only: D for Exit   *)
(* (without BadExit) and Guard, E for Exit (without BadExit) and no        *)
(* Guard, G for Guard and no usable Exit, M for the others.                *)
(***************************************************************************)
RunningWeight(relays, class(_)) ==
    LET in_class == {i \in DOMAIN relays :
                        /\ "Running" \in relays[i].flags
                        /\ class(relays[i].flags)}
        RECURSIVE Sum(_)
        Sum(idx) == IF idx = {} THEN 0
                    ELSE LET i == CHOOSE j \in idx : TRUE
                         IN  relays[i].bandwidth_weight + Sum(idx \ {i})
    IN  1 + Sum(in_class)

UsableExit(flags) == "Exit" \in flags /\ "BadExit" \notin flags

ClassD(flags) == UsableExit(flags) /\ "Guard" \in flags

ClassE(flags) == UsableExit(flags) /\ "Guard" \notin flags

ClassG(flags) == ~UsableExit(flags) /\ "Guard" \in flags

ClassM(flags) == ~UsableExit(flags) /\ "Guard" \notin flags

C32_TotalsOfRunning ==
    (bwpc \in {"modified", "panic"} /\ Len(adv.extra_relays) > 0) =>
        totals = [D |-> RunningWeight(adv.relays, ClassD),
                  E |-> RunningWeight(adv.relays, ClassE),
                  G |-> RunningWeight(adv.relays, ClassG),
                  M |-> RunningWeight(adv.relays, ClassM)]

(***************************************************************************)
(* C33  In case 2b the weights are those of formula 2b1 unless these       *)
(* violate a checked invariant; then they are those of 2b2, with           *)
(* Wee = Wgg = W, Wmd not negative and Wgd = W - Wed - Wmd.  The           *)
(* computation aborts exactly when the final weights of case 2b violate    *)
(* an invariant other than BalanceMid; it never aborts in the cases 1, 2a  *)
(* and 3.                                                                  *)
(***************************************************************************)
InCase2b(t) ==
    LET T == t.E + t.G + t.D + t.M
    IN  /\ 3 * t.E < T
        /\ 3 * t.G < T
        /\ Min(t.E, t.G) + t.D >= Max(t.E, t.G)

Violation(w, t) == check_weights_errors(w, t, 10, TRUE)

C33_Case2bRetry ==
    bwpc \in {"done", "panic"} =>
        LET w == recompute_bw_weights(totals).w
            W == weightscale
        IN  /\ bwpc = "panic" <=>
                  /\ InCase2b(totals)
                  /\ Violation(w, totals) \notin {"None", "BalanceMid"}
            /\ bwpc = "done" => weights = w
            /\ InCase2b(totals) =>
                  IF Violation(Case2b1(totals), totals) = "None"
                  THEN w = Case2b1(totals)
                  ELSE /\ w.Wee = W /\ w.Wgg = W
                       /\ w.Wmg = 0 /\ w.Wme = 0
                       /\ w.Wed = TruncDiv(W * (totals.D - 2 * totals.E
                                                + totals.G + totals.M),
                                           3 * totals.D)
                       /\ w.Wmd = Max(0, TruncDiv(W * (totals.D - 2 * totals.M
                                                + totals.G + totals.E),
                                           3 * totals.D))
                       /\ w.Wgd = W - w.Wed - w.Wmd

C33_Witness ==
    /\ bwpc = "panic"
    /\ InCase2b(totals)
    /\ Violation(Case2b1(totals), totals) # "None"
    /\ recompute_bw_weights(totals).w.Wmd = 0
    /\ totals.D - 2 * totals.M + totals.G + totals.E < 0

(***************************************************************************)
(* C34  The epoch of the consensus i starts at its valid_after and ends    *)
(* at the valid_after of the consensus i + 1, or 3 hours after its start   *)
(* when there is none, and not after the end of the simulation; so         *)
(* consecutive epochs do not overlap and a time lies in the window         *)
(* [start, end) of at most one epoch.                                      *)
(***************************************************************************)
InWindow(time, range) == time >= range.start /\ time < range.end

C35_FlowOfStreams ==
    [][mpc = "ret" =>
          mpc' = CASE mout[2] = "$" -> "call"
                   [] mout[2] = "F" -> "done"
                   [] mout[2] \in {"+", "-"} -> "panic"]_vars

IsServerPacket(pair) == pair[2] = "-"

C35_PacketStream ==
    mpc \in {"packets done", "packets error"} =>
        LET e == mout.emitted
            collected == SelectSeq(e, IsServerPacket)
        IN  /\ e # <<>>
            /\ \A i \in 1..Len(e) - 1 : e[i][2] \in {"+", "-"}
            /\ e[Len(e)][2] \in {"F", "$"}
            /\ e[Len(e)][2] = "$" <=> mout.result = <<"Err">>
            /\ e[Len(e)][2] = "F" =>
                  mout.result = <<"Ok", [i \in DOMAIN collected |->
                                             collected[i][1]]>>

C35_Emissions == C35_FlowOfStreams /\ []C35_PacketStream

C35_Witness ==
    /\ mpc = "packets done"
    /\ Len(mout.result[2]) = 2
    /\ \E i \in DOMAIN mout.emitted : mout.emitted[i][2] = "+"

(***************************************************************************)
(* C36  No trace entry is lost or duplicated on its way to the file.  The  *)
(* rows of the file, of the chunks in the channel and of the buffers of    *)
(* the writers are the entries made so far, each once; a writer sends      *)
(* its rows as one chunk, the rows it held followed by the rows just       *)
(* written, when the buffer exceeds the threshold, and the rows it holds   *)
(* when it is dropped; the worker appends every chunk it receives before   *)
(* the stop sentinel to the file, in the order of arrival; when the run    *)
(* is over the file holds every entry.                                     *)
(***************************************************************************)
RECURSIVE Flatten(_)
Flatten(chunks) ==
    IF chunks = <<>> THEN <<>>
    ELSE (IF Head(chunks) = None THEN <<>> ELSE Head(chunks)[1])
             \o Flatten(Tail(chunks))

\* the m_ids of the rows on their way, as a bag
MessageIdsUnderWay ==
    LET rows == file \o Flatten(channel)
                     \o Flatten([w \in SimWorkers |-> Some(writers[w])])
    IN  [id \in {rows[i].m_id : i \in DOMAIN rows} |->
            Cardinality({i \in DOMAIN rows : rows[i].m_id = id})]

C36_NothingLost ==
    spc \in {"run", "stopping", "done"} =>
        /\ MessageIdsUnderWay = [id \in 0..NEXT_MESSAGE - 1 |-> 1]
        /\ spc = "done" =>
              /\ channel = <<>>
              /\ {file[i].m_id : i \in DOMAIN file} = 0..NEXT_MESSAGE - 1

\* the rows the step has passed to write_entries
RowsWritten == IF notified' # notified THEN (notified')[1].entries ELSE <<>>

WriterStep(w) ==
    \/ /\ writers'[w] = writers[w] \o RowsWritten
       /\ channel' = channel
    \/ /\ writers'[w] = <<>>
       /\ channel' = Append(channel, Some(writers[w] \o RowsWritten))

WorkerStep ==
    /\ channel # <<>>
    /\ Head(channel) # None
    /\ file' = file \o Head(channel)[1]
    /\ channel' = Tail(channel)

C36_ChunksWhole ==
    [][(spc \in {"run", "stopping"}) =>
          /\ \A w \in SimWorkers : writers'[w] # writers[w] => WriterStep(w)
          /\ file' # file => WorkerStep]_vars

C37_CoverCountBounded ==
    \A p \in Ports :
        port_needs[p] # None =>
            port_needs[p][1].covered <= PORT_NEED_COVER_NUM

\* a need is covered by two circuits and a request for its port has been
\* handled
C37_Witness ==
    /\ used # None
    /\ \E p \in Ports :
          /\ port_needs[p] # None
          /\ port_needs[p][1].covered = PORT_NEED_COVER_NUM
          /\ Cardinality({i \in DOMAIN circuits :
                            CoversPort(port_needs, circuits[i], p)})
                 = PORT_NEED_COVER_NUM

(***************************************************************************)
(* C38  add_need on a port whose need exists and has not expired changes   *)
(* nothing, not even the expiration.  In the cycle of a client, where the  *)
(* maintenance runs before every request is handled, every need therefore  *)
(* keeps the expiration of its creation (60 minutes after it) and is gone  *)
(* after the first maintenance at or after that time, requests for its     *)
(* port in between or not; handle_request never meets an expired need, so  *)
(* the branch of add_need that resets the expiration is never taken.       *)
(***************************************************************************)
C38_NeedNotExtended ==
    /\ \A p \in Ports, t \in ClientTimes, fast, stable \in BOOLEAN :
          (port_needs[p] # None /\ ~has_expired(port_needs[p][1], t))
              => add_need(port_needs, p, t, fast, stable) = port_needs
    /\ now # None =>
          \A p \in Ports :
              port_needs[p] # None =>
                  /\ port_needs[p][1].expires
                         = port_needs[p][1].arc + PORT_NEED_LIFETIME
                  /\ ~has_expired(port_needs[p][1], now[1])

\* the need of port 80 made at 0 is gone after the maintenance at minute
\* 60, although a request for port 80 was served at minute 50 (by the
\* circuit that is not stable and became dirty then)
C38_Witness ==
    /\ cpc = "run"
    /\ now = Some(PORT_NEED_LIFETIME)
    /\ port_needs[80] = None
    /\ used # None
    /\ \E i \in DOMAIN circuits :
          /\ circuits[i].dirty_time = Some(50)
          /\ ~circuits[i].is_stable

(***************************************************************************)
(* C39  The dirty_time of a circuit is set once, at its first use, and     *)
(* never changes: the maintenance of a turn only closes circuits and       *)
(* builds clean ones, so every circuit it leaves is a circuit of before    *)
(* with the dirty_time it had or a clean circuit built in the turn; the    *)
(* request of the turn leaves the dirty_time of every dirty circuit as it  *)
(* was, also of the one that serves it, makes no circuit dirty but the one *)
(* that serves it, at the time of the request, and makes none clean.       *)
(***************************************************************************)
WithoutHandles(circ) == [circ EXCEPT !.covered_needs = <<>>]

\* is kept a subsequence of circs, the handles of the circuits aside?
RECURSIVE Retained(_, _)
Retained(kept, circs) ==
    IF kept = <<>> THEN TRUE
    ELSE IF circs = <<>> THEN FALSE
    ELSE IF WithoutHandles(Head(kept)) = WithoutHandles(Head(circs))
    THEN Retained(Tail(kept), Tail(circs))
    ELSE Retained(kept, Tail(circs))

DirtyKept(circs, after, t) ==
    \E n \in 0..Len(after) :
        /\ Retained(SubSeq(after, 1, n), circs)
        /\ \A i \in (n + 1)..Len(after) :
              after[i].time = t /\ after[i].dirty_time = None

DirtyOnFirstUse(circs, u) ==
    /\ Len(circuits') = Len(circs) + (IF u.index \in DOMAIN circs THEN 0 ELSE 1)
    /\ u.index \in DOMAIN circuits'
    /\ \A j \in DOMAIN circs :
          IF circs[j].dirty_time # None
          THEN circuits'[j].dirty_time = circs[j].dirty_time
          ELSE circuits'[j].dirty_time
                  = (IF j = u.index THEN Some(u.time) ELSE None)
    /\ u.index \notin DOMAIN circs =>
          circuits'[u.index].dirty_time = Some(u.time)

C39_DirtyTimeSetOnce ==
    [][LET after == timed_client_updates(
                        Manager(circuits, port_needs, guards), now'[1],
                        consensus', now = None)
       IN  /\ \A mt \in after : DirtyKept(circuits, mt.m.circuits, now'[1])
           /\ \E mt \in after :
                 /\ mt.maint = maint'
                 /\ IF used' = None
                    THEN circuits' = mt.m.circuits
                    ELSE DirtyOnFirstUse(mt.m.circuits, used'[1])]_vars

\* a request was served by a circuit that was dirty before, next to a
\* clean circuit
C39_Witness ==
    /\ used # None
    /\ used[1].kind = "dirty"
    /\ circuits[used[1].index].dirty_time # None
    /\ circuits[used[1].index].dirty_time[1] < used[1].time
    /\ \E j \in DOMAIN circuits : circuits[j].dirty_time = None

(***************************************************************************)
(* C31  usable_guards ends.  It adds a guard only while the number K of    *)
(* listed sampled guards is below 20 and below the cap; every guard it     *)
(* adds has a fingerprint that no sampled guard has, is listed and has     *)
(* added_on in [now - 12 days, now]; when it returns, K is at least the    *)
(* smaller of 20 and the cap, and it returns the fingerprints of the       *)
(* listed sampled guards in the order of sampling.  The cap is             *)
(* min(0.2 * guards in the consensus, 60), in C31_UsableGuards as the      *)
(* number it is and in C31_UsableGuardsTruncated cut to a whole number as  *)
(* the code cuts it.                                                       *)
(***************************************************************************)
Listed(sampled_guards) == Len(SelectSeq(sampled_guards, is_listed))

\* K < min(0.2 * guards in the consensus, 60)
BelowCap(K, cons) ==
    /\ 10 * K < MAX_SAMPLE_THRESHOLD_TENTHS * wide_num_relays(cons)
    /\ K < MAX_SAMPLE_SIZE

UsableGuardsCall(before, after, result, cons, t, MayAdd(_, _)) ==
    /\ SubSeq(after, 1, Len(before)) = before
    /\ \A i \in (Len(before) + 1)..Len(after) :
          LET K == Listed(SubSeq(after, 1, i - 1))
          IN  /\ K < MIN_FILTERED_SAMPLE
              /\ MayAdd(K, cons)
              /\ after[i].fingerprint
                     \notin Fingerprints(SubSeq(after, 1, i - 1))
              /\ is_listed(after[i])
              /\ after[i].added_on >= t - GUARD_LIFETIME \div 10
              /\ after[i].added_on <= t
    /\ ~(Listed(after) < MIN_FILTERED_SAMPLE /\ MayAdd(Listed(after), cons))
    /\ result = [i \in 1..Listed(after) |->
                    SelectSeq(after, is_listed)[i].fingerprint]

BelowTruncatedCap(K, cons) == K < wide_max_sampled(cons)

C31_UsableGuards ==
    [][(used' # None /\ cpc' = "wide" /\ WideGetGuard) =>
          UsableGuardsCall(guards.sampled_guards, guards'.sampled_guards,
                           used'[1].usable, consensus, now[1], BelowCap)]_vars

C31_UsableGuardsTruncated ==
    [][(used' # None /\ cpc' = "wide" /\ WideGetGuard) =>
          UsableGuardsCall(guards.sampled_guards, guards'.sampled_guards,
                           used'[1].usable, consensus, now[1],
                           BelowTruncatedCap)]_vars

\* usable_guards has returned with guards it sampled in this call after
\* guards of earlier calls, some of which are not listed, and with fewer
\* than 20 listed guards, as many as the cap of the consensus allows
C31_Witness ==
    /\ cpc = "wide"
    /\ used # None
    /\ \E i \in DOMAIN guards.sampled_guards :
          ~is_listed(guards.sampled_guards[i])
    /\ \E i \in DOMAIN guards.sampled_guards :
          /\ is_listed(guards.sampled_guards[i])
          /\ guards.sampled_guards[i].added_on > now[1] - Days(1)
    /\ Len(used[1].usable) = wide_max_sampled(consensus)
    /\ Len(used[1].usable) < MIN_FILTERED_SAMPLE

(***************************************************************************)
(* C40  The number of sampled guards of a client never exceeds             *)
(* MAX_SAMPLE_SIZE (60), whatever consensuses make guards unlisted and     *)
(* listed again.                                                           *)
(***************************************************************************)
C40_SampleBounded ==
    cpc = "wide" => Len(guards.sampled_guards) <= MAX_SAMPLE_SIZE

=============================================================================
